---- MODULE Spec2Model ----
(***************************************************************************)
(* StudyHub: the request handlers of src/app/routes.py over the relational *)
(* records of src/app/models.py, the registration and login forms of       *)
(* src/app/forms.py, and the model fallback chain of src/app/ai_service.py.*)
(*                                                                         *)
(* A handler is one action: it reads the acting user (flask-login's        *)
(* current_user), the identifiers of the URL and the submitted fields,     *)
(* changes the tables and leaves its answer in resp.  Handlers carry no    *)
(* bound of their own: the bounds of the model are conjoined in the        *)
(* next-state relations.                                                   *)
(***************************************************************************)
EXTENDS Integers, Sequences, FiniteSets, TLC

(***************************************************************************)
(* Bounds of the model.                                                    *)
(***************************************************************************)
MaxSubjects == 1
MaxNotes == 1
MaxGroups == 2
MaxUsers == 2
MaxShared == 2
MaxDraws == 2
LifeSubjects == 2
LifeNotes == 2

(***************************************************************************)
(* Input domains.                                                          *)
(***************************************************************************)
SubjectNames == {"Math", "History"}
Titles == {"Chapter 5", "Algebra"}
Contents == {"Linear equations and measurements"}
NoteColors == {"#ffffff", "#ffe066"}
ProgressInputs == {"unread", "reading", "mastered", "done", ""}
\* The progress values submitted where the other fields of a note vary too.
FewProgressInputs == {"mastered", "done", ""}
Methods == {"GET", "POST"}

(***************************************************************************)
(* State.  The tables are sets of rows; resp is the answer to the last     *)
(* request.                                                                *)
(***************************************************************************)
VARIABLES
    users,       \* rows of table users
    sessions,    \* ids of the users that hold an authenticated session
    subjects,    \* rows of table subjects
    notes,       \* rows of table notes
    groups,      \* rows of table study_groups
    members,     \* rows of table group_members
    shared,      \* rows of table shared_notes
    fk_enforced, \* whether the database engine enforces foreign keys
    form,        \* the form submitted with the request being answered
    resp,        \* the answer to the request being answered
    ai_in,       \* the environment of a call of call_ai
    ai_out,      \* what the call of call_ai came to
    cg,          \* the requests served statement by statement, one for each worker
    exams,       \* rows of table exam_dates
    notifications, \* rows of table notifications
    commit_ok    \* whether the database takes the commit of the next request

dbvars == <<users, subjects, notes, groups, members, shared, exams, notifications>>
aivars == <<ai_in, ai_out>>
\* What the handlers that run to completion in one step leave alone.
tvars == <<exams, notifications, commit_ok>>
xvars == <<cg, exams, notifications, commit_ok>>
vars ==
    <<users, sessions, subjects, notes, groups, members, shared, fk_enforced, form, resp,
      ai_in, ai_out, cg, exams, notifications,
      commit_ok>>

(***************************************************************************)
(* Rows and primary keys.                                                  *)
(***************************************************************************)
Ids(table) == {r.id : r \in table}
MaxOf(S) == IF S = {} THEN 0 ELSE CHOOSE m \in S : \A x \in S : x <= m
\* INTEGER PRIMARY KEY of the default engine: one more than the largest id.
NextId(table) == MaxOf(Ids(table)) + 1
Row(table, id) == CHOOSE r \in table : r.id = id

\* models.py Note(...): the column defaults of a new note.
NewNote(id, title, content, subject_id) ==
    [id |-> id, title |-> title, content |-> content, is_pinned |-> FALSE,
     progress |-> "unread", color |-> "#ffffff", subject_id |-> subject_id]

NewSubject(id, name, user_id) == [id |-> id, name |-> name, user_id |-> user_id]

\* note.subject.user_id: the owner of a note through its parent subject.
NoteOwner(note) == Row(subjects, note.subject_id).user_id

(***************************************************************************)
(* Answers.                                                                *)
(***************************************************************************)
\* arg is the identifier in the URL, arg2 an identifier among the form fields.
RespOn(route, u, arg, arg2, status, flash, val) ==
    [route |-> route, user |-> u, arg |-> arg, arg2 |-> arg2, status |-> status,
     flash |-> flash, val |-> val]

Resp(route, u, arg, status, flash, val) == RespOn(route, u, arg, 0, status, flash, val)

NoResp == Resp("", 0, 0, 0, "", "")
NoForm ==
    [method |-> "", username |-> "", email |-> <<>>, password |-> "", confirm |-> ""]

\* abort(status): nothing of the request is persisted.
Abort(route, u, arg, status) ==
    /\ resp' = Resp(route, u, arg, status, "", "")
    /\ UNCHANGED dbvars

\* An answer that leaves the tables alone.
Answer(route, u, arg, status, flash, val) ==
    /\ resp' = Resp(route, u, arg, status, flash, val)
    /\ UNCHANGED dbvars

(***************************************************************************)
(* forms.py                                                                *)
(***************************************************************************)
BlankStrings == {"", " ", "  "}
\* DataRequired: the field holds something other than white space.
DataRequired(s) == s \notin BlankStrings
\* Length(min, max)
LengthOk(s, min, max) == Len(s) >= min /\ Len(s) <= max

SubjectNameMin == 2
SubjectNameMax == 100
SubjectFormValid(name) ==
    DataRequired(name) /\ LengthOk(name, SubjectNameMin, SubjectNameMax)

TitleMin == 2
TitleMax == 200
ContentMin == 10
NoteFormValid(title, content) ==
    /\ DataRequired(title) /\ LengthOk(title, TitleMin, TitleMax)
    /\ DataRequired(content) /\ Len(content) >= ContentMin

\* validate_on_submit(): a submitted (POST) form that validates.
ValidateOnSubmit(method, valid) == method = "POST" /\ valid

(***************************************************************************)
(* Subject routes.                                                         *)
(***************************************************************************)
create_subject(u, method, name) ==
    /\ u \in sessions
    /\ IF ValidateOnSubmit(method, SubjectFormValid(name))
       THEN /\ subjects' = subjects \cup {NewSubject(NextId(subjects), name, u)}
            /\ resp' = Resp("create_subject", u, 0, 302, "Subject created successfully!", "")
            /\ UNCHANGED <<users, notes, groups, members, shared>>
       ELSE Answer("create_subject", u, 0, 200, "", "")

view_subject(u, subject_id) ==
    /\ u \in sessions
    /\ IF subject_id \notin Ids(subjects) THEN Abort("view_subject", u, subject_id, 404)
       ELSE IF Row(subjects, subject_id).user_id # u
       THEN Abort("view_subject", u, subject_id, 403)
       ELSE Answer("view_subject", u, subject_id, 200, "", "")

\* edit_subject handing the subject to another user along with the new name.
edit_subject_handing_over(u, subject_id, method, name) ==
    /\ u \in sessions
    /\ IF subject_id \notin Ids(subjects) THEN Abort("edit_subject", u, subject_id, 404)
       ELSE IF Row(subjects, subject_id).user_id # u
       THEN Abort("edit_subject", u, subject_id, 403)
       ELSE IF ValidateOnSubmit(method, SubjectFormValid(name))
       THEN /\ subjects' = (subjects \ {Row(subjects, subject_id)})
                   \cup {[Row(subjects, subject_id) EXCEPT
                             !.name = name, !.user_id = CHOOSE x \in Ids(users) : x # u]}
            /\ resp' = Resp("edit_subject", u, subject_id, 302,
                            "Subject updated successfully!", "")
            /\ UNCHANGED <<users, notes, groups, members, shared>>
       ELSE Answer("edit_subject", u, subject_id, 200, "", "")

edit_subject(u, subject_id, method, name) ==
    /\ u \in sessions
    /\ IF subject_id \notin Ids(subjects) THEN Abort("edit_subject", u, subject_id, 404)
       ELSE IF Row(subjects, subject_id).user_id # u
       THEN Abort("edit_subject", u, subject_id, 403)
       ELSE IF ValidateOnSubmit(method, SubjectFormValid(name))
       THEN /\ subjects' = (subjects \ {Row(subjects, subject_id)})
                   \cup {[Row(subjects, subject_id) EXCEPT !.name = name]}
            /\ resp' = Resp("edit_subject", u, subject_id, 302,
                            "Subject updated successfully!", "")
            /\ UNCHANGED <<users, notes, groups, members, shared>>
       ELSE Answer("edit_subject", u, subject_id, 200, "", "")

\* The notes removed with a subject: cascade='all, delete-orphan' of Subject.notes.
NotesOf(subject_id) == {n \in notes : n.subject_id = subject_id}
\* shared_notes.note_id references notes.id and nothing removes the rows of a
\* deleted note: an engine that enforces foreign keys refuses the commit.
CommitRefused(gone) == fk_enforced /\ \E s \in shared : s.note_id \in Ids(gone)

\* delete_subject without the cascade to the notes of the subject.
delete_subject_no_cascade(u, subject_id) ==
    /\ u \in sessions
    /\ IF subject_id \notin Ids(subjects) THEN Abort("delete_subject", u, subject_id, 404)
       ELSE IF Row(subjects, subject_id).user_id # u
       THEN Abort("delete_subject", u, subject_id, 403)
       ELSE /\ subjects' = subjects \ {Row(subjects, subject_id)}
            /\ resp' = Resp("delete_subject", u, subject_id, 302,
                            "Subject and note(s) deleted successfully.", "")
            /\ UNCHANGED <<users, notes, groups, members, shared>>

delete_subject(u, subject_id) ==
    /\ u \in sessions
    /\ IF subject_id \notin Ids(subjects) THEN Abort("delete_subject", u, subject_id, 404)
       ELSE IF Row(subjects, subject_id).user_id # u
       THEN Abort("delete_subject", u, subject_id, 403)
       ELSE IF CommitRefused(NotesOf(subject_id))
       THEN Answer("delete_subject", u, subject_id, 302,
                   "An error occurred while deleting the subject. Please try again.", "")
       ELSE /\ subjects' = subjects \ {Row(subjects, subject_id)}
            /\ notes' = notes \ NotesOf(subject_id)
            /\ resp' = Resp("delete_subject", u, subject_id, 302,
                            "Subject and note(s) deleted successfully.", "")
            /\ UNCHANGED <<users, groups, members, shared>>

(***************************************************************************)
(* ai_service.py: the fallback chain over the hosted models.               *)
(***************************************************************************)
FREE_MODELS ==
    << "meta-llama/llama-3.2-3b-instruct:free",
       "google/gemma-3-4b-it:free",
       "qwen/qwen3-4b:free",
       "mistralai/mistral-small-3.1-24b-instruct:free",
       "meta-llama/llama-3.3-70b-instruct:free" >>

ApiKeyNotSet == "API key not set. Please add OPENROUTER_API_KEY to your .env file."
AllModelsUnavailable ==
    "All AI models are currently unavailable. Please try again in a moment."
PlaceholderKey == "your_openrouter_api_key_here"

\* What one request to one model comes to: urlopen raises (no connection, the
\* 30 s timeout, a status that is not a success), the body is not the expected
\* JSON (json.loads or the indexing raises), or the body carries a content.
FailureKinds == {"transport_error", "timeout", "http_error", "malformed"}
Failure(kind) == [kind |-> kind, content |-> ""]
Content(text) == [kind |-> "content", content |-> text]

\* except urllib.error.URLError: the failures of urlopen alone.
Caught_urlopen(kind) == kind \in {"transport_error", "timeout", "http_error"}

\* except Exception: every failure of a request is an Exception.
Caught(kind) == kind \in {"transport_error", "timeout", "http_error", "malformed"}

MinContentLen == 5
\* if content: the truth value of the content alone.
Usable_nonempty(o) == o.kind = "content" /\ o.content # ""

\* if content and len(content) > 5
Usable(o) == o.kind = "content" /\ o.content # "" /\ Len(o.content) > MinContentLen

\* The loop with break in the place of continue.
RECURSIVE Scan_break(_, _, _)
Scan_break(i, outcomes, contacted) ==
    IF i > Len(FREE_MODELS)
    THEN [text |-> AllModelsUnavailable, contacted |-> contacted,
          raised |-> FALSE, line |-> 59]
    ELSE LET o == outcomes[i]
             sent == Append(contacted, FREE_MODELS[i])
         IN  IF o.kind # "content"
             THEN [text |-> AllModelsUnavailable, contacted |-> sent,
                   raised |-> FALSE, line |-> 59]
             ELSE IF o.content # "" /\ Len(o.content) > MinContentLen
                  THEN [text |-> o.content, contacted |-> sent,
                        raised |-> FALSE, line |-> 55]
                  ELSE Scan_break(i + 1, outcomes, sent)

\* for model in FREE_MODELS, from the i-th model on; contacted lists the models
\* a request was sent to so far.  line is the return statement reached.
RECURSIVE Scan(_, _, _)
Scan(i, outcomes, contacted) ==
    IF i > Len(FREE_MODELS)
    THEN [text |-> AllModelsUnavailable, contacted |-> contacted,
          raised |-> FALSE, line |-> 59]
    ELSE LET o == outcomes[i]
             sent == Append(contacted, FREE_MODELS[i])
         IN  IF o.kind # "content"
             THEN IF Caught(o.kind)
                  THEN Scan(i + 1, outcomes, sent)
                  ELSE [text |-> "", contacted |-> sent, raised |-> TRUE, line |-> 0]
             ELSE IF Usable(o)
                  THEN [text |-> o.content, contacted |-> sent,
                        raised |-> FALSE, line |-> 55]
                  ELSE Scan(i + 1, outcomes, sent)

\* call_ai with a memory of the last call: the scan starts behind the models
\* that call went through.
call_ai_resuming(api_key, outcomes) ==
    IF api_key = "" \/ api_key = PlaceholderKey
    THEN [text |-> ApiKeyNotSet, contacted |-> <<>>, raised |-> FALSE, line |-> 29]
    ELSE Scan((Len(ai_out.contacted) % Len(FREE_MODELS)) + 1, outcomes, <<>>)

\* call_ai(prompt, max_tokens) under an environment: the configured key and
\* what each model would answer.
\* call_ai testing only for an empty key.
call_ai_any_key(api_key, outcomes) ==
    IF api_key = ""
    THEN [text |-> ApiKeyNotSet, contacted |-> <<>>, raised |-> FALSE, line |-> 29]
    ELSE Scan(1, outcomes, <<>>)

call_ai(api_key, outcomes) ==
    IF api_key = "" \/ api_key = PlaceholderKey
    THEN [text |-> ApiKeyNotSet, contacted |-> <<>>, raised |-> FALSE, line |-> 29]
    ELSE Scan(1, outcomes, <<>>)

\* No call in progress, and no result yet.
NoCall == [key |-> "", outcomes |-> <<>>]
NoResult == [text |-> "", contacted |-> <<>>, raised |-> FALSE, line |-> 0]

(***************************************************************************)
(* Note routes.                                                            *)
(***************************************************************************)
\* create_note storing whatever is submitted.
create_note_unvalidated(u, subject_id, method, title, content) ==
    /\ u \in sessions
    /\ IF subject_id \notin Ids(subjects) THEN Abort("create_note", u, subject_id, 404)
       ELSE IF Row(subjects, subject_id).user_id # u
       THEN Abort("create_note", u, subject_id, 403)
       ELSE IF method = "POST"
       THEN /\ notes' = notes \cup {NewNote(NextId(notes), title, content, subject_id)}
            /\ resp' = Resp("create_note", u, subject_id, 302,
                            "Note created successfully!", "")
            /\ UNCHANGED <<users, subjects, groups, members, shared>>
       ELSE Answer("create_note", u, subject_id, 200, "", "")

create_note(u, subject_id, method, title, content) ==
    /\ u \in sessions
    /\ IF subject_id \notin Ids(subjects) THEN Abort("create_note", u, subject_id, 404)
       ELSE IF Row(subjects, subject_id).user_id # u
       THEN Abort("create_note", u, subject_id, 403)
       ELSE IF ValidateOnSubmit(method, NoteFormValid(title, content))
       THEN /\ notes' = notes \cup {NewNote(NextId(notes), title, content, subject_id)}
            /\ resp' = Resp("create_note", u, subject_id, 302,
                            "Note created successfully!", "")
            /\ UNCHANGED <<users, subjects, groups, members, shared>>
       ELSE Answer("create_note", u, subject_id, 200, "", "")

\* The handlers that look a note up, check its owner and render it:
\* view_note, export_note, flashcards, mindmap.
note_page(route, u, note_id) ==
    /\ u \in sessions
    /\ IF note_id \notin Ids(notes) THEN Abort(route, u, note_id, 404)
       ELSE IF NoteOwner(Row(notes, note_id)) # u THEN Abort(route, u, note_id, 403)
       ELSE Answer(route, u, note_id, 200, "", Row(notes, note_id).title)

view_note(u, note_id) == note_page("view_note", u, note_id)
export_note(u, note_id) == note_page("export_note", u, note_id)
flashcards(u, note_id) == note_page("flashcards", u, note_id)
mindmap(u, note_id) == note_page("mindmap", u, note_id)

edit_note(u, note_id, method, title, content) ==
    /\ u \in sessions
    /\ IF note_id \notin Ids(notes) THEN Abort("edit_note", u, note_id, 404)
       ELSE IF NoteOwner(Row(notes, note_id)) # u THEN Abort("edit_note", u, note_id, 403)
       ELSE IF ValidateOnSubmit(method, NoteFormValid(title, content))
       THEN /\ notes' = (notes \ {Row(notes, note_id)})
                   \cup {[Row(notes, note_id) EXCEPT !.title = title, !.content = content]}
            /\ resp' = Resp("edit_note", u, note_id, 302, "Note updated successfully!", "")
            /\ UNCHANGED <<users, subjects, groups, members, shared>>
       ELSE Answer("edit_note", u, note_id, 200, "", "")

\* delete_note on an engine whose commit never refuses a delete.
delete_note_unrefused(u, note_id) ==
    /\ u \in sessions
    /\ IF note_id \notin Ids(notes) THEN Abort("delete_note", u, note_id, 404)
       ELSE IF NoteOwner(Row(notes, note_id)) # u THEN Abort("delete_note", u, note_id, 403)
       ELSE /\ notes' = notes \ {Row(notes, note_id)}
            /\ resp' = Resp("delete_note", u, note_id, 302, "Note deleted successfully.", "")
            /\ UNCHANGED <<users, subjects, groups, members, shared>>

delete_note(u, note_id) ==
    /\ u \in sessions
    /\ IF note_id \notin Ids(notes) THEN Abort("delete_note", u, note_id, 404)
       ELSE IF NoteOwner(Row(notes, note_id)) # u THEN Abort("delete_note", u, note_id, 403)
       ELSE IF CommitRefused({Row(notes, note_id)})
       THEN Answer("delete_note", u, note_id, 302,
                   "An error occurred while deleting the note. Please try again.", "")
       ELSE /\ notes' = notes \ {Row(notes, note_id)}
            /\ resp' = Resp("delete_note", u, note_id, 302, "Note deleted successfully.", "")
            /\ UNCHANGED <<users, subjects, groups, members, shared>>

\* toggle_pin_note without its security check.
toggle_pin_note_unchecked(u, note_id) ==
    /\ u \in sessions
    /\ IF note_id \notin Ids(notes) THEN Abort("toggle_pin_note", u, note_id, 404)
       ELSE /\ notes' = (notes \ {Row(notes, note_id)})
                   \cup {[Row(notes, note_id) EXCEPT !.is_pinned = ~@]}
            /\ resp' = Resp("toggle_pin_note", u, note_id, 302, "", "")
            /\ UNCHANGED <<users, subjects, groups, members, shared>>

toggle_pin_note(u, note_id) ==
    /\ u \in sessions
    /\ IF note_id \notin Ids(notes) THEN Abort("toggle_pin_note", u, note_id, 404)
       ELSE IF NoteOwner(Row(notes, note_id)) # u
       THEN Abort("toggle_pin_note", u, note_id, 403)
       ELSE /\ notes' = (notes \ {Row(notes, note_id)})
                   \cup {[Row(notes, note_id) EXCEPT !.is_pinned = ~@]}
            /\ resp' = Resp("toggle_pin_note", u, note_id, 302,
                            IF Row(notes, note_id).is_pinned
                            THEN "Note unpinned successfully!"
                            ELSE "Note pinned successfully!", "")
            /\ UNCHANGED <<users, subjects, groups, members, shared>>

ProgressValues == {"unread", "reading", "mastered"}
\* request.json.get('progress', 'unread'): "" stands for a body without the key.
ProgressOf(submitted) == IF submitted = "" THEN "unread" ELSE submitted

\* update_progress storing whatever was submitted.
update_progress_unvalidated(u, note_id, submitted) ==
    /\ u \in sessions
    /\ IF note_id \notin Ids(notes) THEN Abort("update_progress", u, note_id, 404)
       ELSE IF NoteOwner(Row(notes, note_id)) # u
       THEN Abort("update_progress", u, note_id, 403)
       ELSE /\ notes' = (notes \ {Row(notes, note_id)})
                   \cup {[Row(notes, note_id) EXCEPT !.progress = ProgressOf(submitted)]}
            /\ resp' = Resp("update_progress", u, note_id, 200, "", ProgressOf(submitted))
            /\ UNCHANGED <<users, subjects, groups, members, shared>>

\* update_progress answering with the progress the note has after the request.
update_progress_reporting_stored(u, note_id, submitted) ==
    /\ u \in sessions
    /\ IF note_id \notin Ids(notes) THEN Abort("update_progress", u, note_id, 404)
       ELSE IF NoteOwner(Row(notes, note_id)) # u
       THEN Abort("update_progress", u, note_id, 403)
       ELSE /\ notes' = IF ProgressOf(submitted) \in ProgressValues
                        THEN (notes \ {Row(notes, note_id)})
                             \cup {[Row(notes, note_id)
                                      EXCEPT !.progress = ProgressOf(submitted)]}
                        ELSE notes
            /\ resp' = Resp("update_progress", u, note_id, 200, "",
                            IF ProgressOf(submitted) \in ProgressValues
                            THEN ProgressOf(submitted)
                            ELSE Row(notes, note_id).progress)
            /\ UNCHANGED <<users, subjects, groups, members, shared>>

update_progress(u, note_id, submitted) ==
    /\ u \in sessions
    /\ IF note_id \notin Ids(notes) THEN Abort("update_progress", u, note_id, 404)
       ELSE IF NoteOwner(Row(notes, note_id)) # u
       THEN Abort("update_progress", u, note_id, 403)
       ELSE /\ notes' = IF ProgressOf(submitted) \in ProgressValues
                        THEN (notes \ {Row(notes, note_id)})
                             \cup {[Row(notes, note_id)
                                      EXCEPT !.progress = ProgressOf(submitted)]}
                        ELSE notes
            /\ resp' = Resp("update_progress", u, note_id, 200, "", ProgressOf(submitted))
            /\ UNCHANGED <<users, subjects, groups, members, shared>>

update_note_color(u, note_id, color) ==
    /\ u \in sessions
    /\ IF note_id \notin Ids(notes) THEN Abort("update_note_color", u, note_id, 404)
       ELSE IF NoteOwner(Row(notes, note_id)) # u
       THEN Abort("update_note_color", u, note_id, 403)
       ELSE /\ notes' = (notes \ {Row(notes, note_id)})
                   \cup {[Row(notes, note_id) EXCEPT !.color = color]}
            /\ resp' = Resp("update_note_color", u, note_id, 200, "", color)
            /\ UNCHANGED <<users, subjects, groups, members, shared>>

\* doc.build(story) of reportlab either produces the file or raises.
export_note_pdf(u, note_id, built) ==
    /\ u \in sessions
    /\ IF note_id \notin Ids(notes) THEN Abort("export_note_pdf", u, note_id, 404)
       ELSE IF NoteOwner(Row(notes, note_id)) # u
       THEN Abort("export_note_pdf", u, note_id, 403)
       ELSE IF built
       THEN Answer("export_note_pdf", u, note_id, 200, "", Row(notes, note_id).title)
       ELSE Answer("export_note_pdf", u, note_id, 302, "Error generating PDF", "")

\* str.strip() on the submitted fields of this model.
Strip(s) == IF s \in BlankStrings THEN "" ELSE s

\* save_generated_note without the test for missing fields.
save_generated_note_unchecked(u, subject_id, title, content) ==
    /\ u \in sessions
    /\ IF subject_id \notin Ids(subjects)
       THEN Abort("save_generated_note", u, subject_id, 404)
       ELSE IF Row(subjects, subject_id).user_id # u
       THEN Abort("save_generated_note", u, subject_id, 403)
       ELSE /\ notes' = notes \cup {NewNote(NextId(notes), Strip(title), Strip(content),
                                             subject_id)}
            /\ resp' = Resp("save_generated_note", u, subject_id, 302,
                            "AI generated note saved successfully!", "")
            /\ UNCHANGED <<users, subjects, groups, members, shared>>

\* subject_id 0 stands for a form without the field.
save_generated_note(u, subject_id, title, content) ==
    /\ u \in sessions
    /\ IF Strip(title) = "" \/ Strip(content) = "" \/ subject_id = 0
       THEN Answer("save_generated_note", u, subject_id, 302, "Missing required fields.",
                   "")
       ELSE IF subject_id \notin Ids(subjects)
       THEN Abort("save_generated_note", u, subject_id, 404)
       ELSE IF Row(subjects, subject_id).user_id # u
       THEN Abort("save_generated_note", u, subject_id, 403)
       ELSE /\ notes' = notes \cup {NewNote(NextId(notes), Strip(title), Strip(content),
                                             subject_id)}
            /\ resp' = Resp("save_generated_note", u, subject_id, 302,
                            "AI generated note saved successfully!", "")
            /\ UNCHANGED <<users, subjects, groups, members, shared>>

(***************************************************************************)
(* AI routes.  env is the environment of the call: the configured key and  *)
(* what each model would answer.                                           *)
(***************************************************************************)
\* summarize_note, generate_quiz, explain_topic, improve_note: call_ai on a
\* prompt built from the note; the handler answers {'result': result}.
ai_text(route, u, note_id, env) ==
    /\ u \in sessions
    /\ IF note_id \notin Ids(notes) THEN Abort(route, u, note_id, 404)
       ELSE IF NoteOwner(Row(notes, note_id)) # u THEN Abort(route, u, note_id, 403)
       ELSE IF call_ai(env.key, env.outcomes).raised
       THEN Answer(route, u, note_id, 500, "", "")
       ELSE Answer(route, u, note_id, 200, "", call_ai(env.key, env.outcomes).text)

ai_summarize(u, note_id, env) == ai_text("ai_summarize", u, note_id, env)
ai_quiz(u, note_id, env) == ai_text("ai_quiz", u, note_id, env)
ai_explain(u, note_id, env) == ai_text("ai_explain", u, note_id, env)
ai_improve(u, note_id, env) == ai_text("ai_improve", u, note_id, env)

ai_chat(u, note_id, question, env) ==
    /\ u \in sessions
    /\ IF note_id \notin Ids(notes) THEN Abort("ai_chat", u, note_id, 404)
       ELSE IF NoteOwner(Row(notes, note_id)) # u THEN Abort("ai_chat", u, note_id, 403)
       ELSE IF Strip(question) = ""
       THEN Answer("ai_chat", u, note_id, 200, "", "Please ask a question.")
       ELSE IF call_ai(env.key, env.outcomes).raised
       THEN Answer("ai_chat", u, note_id, 500, "", "")
       ELSE Answer("ai_chat", u, note_id, 200, "", call_ai(env.key, env.outcomes).text)

\* Answers of a model that carry a JSON array, a JSON object, or a bracketed
\* part that is no JSON.
CardsJson == "[{\"front\": \"Slope\", \"back\": \"Rise over run\"}]"
OneCard == "{\"front\": \"Slope\", \"back\": \"Rise over run\"}"
BrokenArray == "Here you go: [front, back]"
MindmapJson == "{\"center\": \"Algebra\"}"
BrokenObject == "{center: Algebra}"
\* re.search(r'\[.*\]', result, re.DOTALL).group(): from the first [ to the
\* last ] of the texts of this model; "" when there is no match.
ArrayPart(text) ==
    CASE text = CardsJson -> CardsJson
      [] text = BrokenArray -> "[front, back]"
      [] OTHER -> ""
\* re.search(r'\{.*\}', result, re.DOTALL).group()
ObjectPart(text) ==
    CASE text = CardsJson -> OneCard
      [] text = MindmapJson -> MindmapJson
      [] text = BrokenObject -> BrokenObject
      [] OTHER -> ""
\* json.loads returns (TRUE) or raises (FALSE).
JsonLoads(text) == text \in {CardsJson, OneCard, MindmapJson}
ArrayParsed(text) == ArrayPart(text) # "" /\ JsonLoads(ArrayPart(text))
ObjectParsed(text) == ObjectPart(text) # "" /\ JsonLoads(ObjectPart(text))

generate_flashcards(u, note_id, env) ==
    /\ u \in sessions
    /\ IF note_id \notin Ids(notes) THEN Abort("generate_flashcards", u, note_id, 404)
       ELSE IF NoteOwner(Row(notes, note_id)) # u
       THEN Abort("generate_flashcards", u, note_id, 403)
       ELSE IF call_ai(env.key, env.outcomes).raised
       THEN Answer("generate_flashcards", u, note_id, 500, "", "")
       ELSE IF ArrayParsed(call_ai(env.key, env.outcomes).text)
       THEN Answer("generate_flashcards", u, note_id, 200, "", "cards")
       ELSE Answer("generate_flashcards", u, note_id, 200, "",
                   "Could not generate flashcards. Try again.")

\* generate_mindmap with json.loads outside the try: what it raises reaches
\* the 500 handler.
generate_mindmap_unguarded(u, note_id, env) ==
    /\ u \in sessions
    /\ IF note_id \notin Ids(notes) THEN Abort("generate_mindmap", u, note_id, 404)
       ELSE IF NoteOwner(Row(notes, note_id)) # u
       THEN Abort("generate_mindmap", u, note_id, 403)
       ELSE IF call_ai(env.key, env.outcomes).raised
       THEN Answer("generate_mindmap", u, note_id, 500, "", "")
       ELSE IF ObjectPart(call_ai(env.key, env.outcomes).text) = ""
       THEN Answer("generate_mindmap", u, note_id, 200, "",
                   "Could not generate mind map. Please try again.")
       ELSE IF JsonLoads(ObjectPart(call_ai(env.key, env.outcomes).text))
       THEN Answer("generate_mindmap", u, note_id, 200, "", "mindmap")
       ELSE Answer("generate_mindmap", u, note_id, 500, "", "")

generate_mindmap(u, note_id, env) ==
    /\ u \in sessions
    /\ IF note_id \notin Ids(notes) THEN Abort("generate_mindmap", u, note_id, 404)
       ELSE IF NoteOwner(Row(notes, note_id)) # u
       THEN Abort("generate_mindmap", u, note_id, 403)
       ELSE IF call_ai(env.key, env.outcomes).raised
       THEN Answer("generate_mindmap", u, note_id, 500, "", "")
       ELSE IF ObjectParsed(call_ai(env.key, env.outcomes).text)
       THEN Answer("generate_mindmap", u, note_id, 200, "", "mindmap")
       ELSE Answer("generate_mindmap", u, note_id, 200, "",
                   "Could not generate mind map. Please try again.")

\* ai_suggest_exams: a user without subjects is told so before any call; the
\* suggestions are the JSON array of the answer.
ai_suggest_exams(u, env) ==
    /\ u \in sessions
    /\ IF \A s \in subjects : s.user_id # u
       THEN Answer("ai_suggest_exams", u, 0, 200, "",
                   "No subjects found. Add some subjects and notes first!")
       ELSE IF call_ai(env.key, env.outcomes).raised
       THEN Answer("ai_suggest_exams", u, 0, 500, "", "")
       ELSE IF ArrayParsed(call_ai(env.key, env.outcomes).text)
       THEN Answer("ai_suggest_exams", u, 0, 200, "", "suggestions")
       ELSE Answer("ai_suggest_exams", u, 0, 200, "",
                   "Could not generate suggestions. Please try again.")

(***************************************************************************)
(* Study groups.                                                           *)
(***************************************************************************)
\* generate_invite_code(): eight characters of A-Z and 0-9.
InviteCodeLen == 8
Codes == {"AAAA1111", "BBBB2222"}
\* str.upper() on the invite codes submitted in this model.
Upper(code) ==
    CASE code = "aaaa1111" -> "AAAA1111"
      [] code = "bbbb2222" -> "BBBB2222"
      [] OTHER -> code

NewGroup(id, name, invite_code, created_by) ==
    [id |-> id, name |-> name, invite_code |-> invite_code, created_by |-> created_by]
Membership(user_id, group_id) == [user_id |-> user_id, group_id |-> group_id]
NewSharedNote(id, note_id, group_id, shared_by) ==
    [id |-> id, note_id |-> note_id, group_id |-> group_id, shared_by |-> shared_by]

\* current_user in group.members.all()
IsMember(u, group_id) == Membership(u, group_id) \in members

\* StudyGroup.query.filter_by(invite_code=invite_code).first()
CodeTaken(code) == \E g \in groups : g.invite_code = code

\* invite_code = generate_invite_code(); while <taken>: invite_code = ...
\* draws are the codes the generator yields, in order; the loop ends at the
\* first one no group holds (0 when the draws given end before the loop does).
RECURSIVE FirstFree(_, _)
FirstFree(draws, i) ==
    IF i > Len(draws) THEN 0
    ELSE IF ~CodeTaken(draws[i]) THEN i
    ELSE FirstFree(draws, i + 1)

create_group(u, name, draws) ==
    /\ u \in sessions
    /\ IF Strip(name) = ""
       THEN Answer("create_group", u, 0, 302, "Group name is required.", "")
       ELSE /\ FirstFree(draws, 1) # 0
            /\ groups' = groups \cup
                  {NewGroup(NextId(groups), Strip(name), draws[FirstFree(draws, 1)], u)}
            /\ members' = members \cup {Membership(u, NextId(groups))}
            /\ resp' = Resp("create_group", u, NextId(groups), 302, "Group created!",
                            draws[FirstFree(draws, 1)])
            /\ UNCHANGED <<users, subjects, notes, shared>>

\* create_group one statement at a time, for requests that overlap.  Each
\* worker serves one request; pc is the statement it is about to run.
MaxWorkers == 2
Workers == 1..MaxWorkers
NoRequest == [pc |-> "idle", user |-> 0, name |-> "", code |-> "", status |-> 0]
NoRequests == [w \in Workers |-> NoRequest]

\* name = request.form.get('name', '').strip(); if not name: flash, redirect
cg_begin(w, u, name) ==
    /\ cg[w].pc = "idle"
    /\ u \in sessions
    /\ cg' = [cg EXCEPT ![w] =
                 IF Strip(name) = ""
                 THEN [pc |-> "done", user |-> u, name |-> "", code |-> "", status |-> 302]
                 ELSE [pc |-> "draw", user |-> u, name |-> Strip(name), code |-> "",
                       status |-> 0]]
    /\ UNCHANGED dbvars

\* The code generated once, ahead of the loop, and never again.
cg_draw_once(w, code) ==
    /\ cg[w].pc = "draw"
    /\ cg' = [cg EXCEPT ![w].code = IF cg[w].code = "" THEN code ELSE cg[w].code,
                        ![w].pc = "check"]
    /\ UNCHANGED dbvars

\* invite_code = StudyGroup.generate_invite_code()
cg_draw(w, code) ==
    /\ cg[w].pc = "draw"
    /\ cg' = [cg EXCEPT ![w].code = code, ![w].pc = "check"]
    /\ UNCHANGED dbvars

\* while StudyGroup.query.filter_by(invite_code=invite_code).first()
cg_check(w) ==
    /\ cg[w].pc = "check"
    /\ cg' = [cg EXCEPT ![w].pc = IF CodeTaken(cg[w].code) THEN "draw" ELSE "insert"]
    /\ UNCHANGED dbvars

\* The insert without the unique index on invite_code.
cg_insert_no_unique(w) ==
    /\ cg[w].pc = "insert"
    /\ groups' = groups \cup
          {NewGroup(NextId(groups), cg[w].name, cg[w].code, cg[w].user)}
    /\ members' = members \cup {Membership(cg[w].user, NextId(groups))}
    /\ cg' = [cg EXCEPT ![w].pc = "done", ![w].status = 302]
    /\ UNCHANGED <<users, subjects, notes, shared>>

\* db.session.add(group); flush; members.append; commit.  The unique index on
\* invite_code refuses a code that is held by now: the IntegrityError is not
\* caught in the handler, the 500 handler rolls back and answers.
cg_insert(w) ==
    /\ cg[w].pc = "insert"
    /\ IF CodeTaken(cg[w].code)
       THEN /\ cg' = [cg EXCEPT ![w].pc = "done", ![w].status = 500]
            /\ UNCHANGED dbvars
       ELSE /\ groups' = groups \cup
                  {NewGroup(NextId(groups), cg[w].name, cg[w].code, cg[w].user)}
            /\ members' = members \cup {Membership(cg[w].user, NextId(groups))}
            /\ cg' = [cg EXCEPT ![w].pc = "done", ![w].status = 302]
            /\ UNCHANGED <<users, subjects, notes, shared>>

\* The answer leaves and the worker is free.
cg_respond(w) ==
    /\ cg[w].pc = "done"
    /\ cg' = [cg EXCEPT ![w] = NoRequest]
    /\ UNCHANGED dbvars

AlreadyMember == "You are already a member of this group!"

\* join_group without the membership test: the primary key (user_id, group_id)
\* of group_members refuses the second row of a member, and the 500 handler
\* answers.
join_group_unchecked(u, invite_code) ==
    /\ u \in sessions
    /\ IF ~CodeTaken(Upper(Strip(invite_code)))
       THEN Answer("join_group", u, 0, 302,
                   "Invalid invite code. Please check and try again.", "")
       ELSE LET group == CHOOSE g \in groups : g.invite_code = Upper(Strip(invite_code))
            IN  IF IsMember(u, group.id)
                THEN Answer("join_group", u, group.id, 500, "", "")
                ELSE /\ members' = members \cup {Membership(u, group.id)}
                     /\ resp' = Resp("join_group", u, group.id, 302, "You joined!", "")
                     /\ UNCHANGED <<users, subjects, notes, groups, shared>>

join_group(u, invite_code) ==
    /\ u \in sessions
    /\ IF ~CodeTaken(Upper(Strip(invite_code)))
       THEN Answer("join_group", u, 0, 302,
                   "Invalid invite code. Please check and try again.", "")
       ELSE LET group == CHOOSE g \in groups : g.invite_code = Upper(Strip(invite_code))
            IN  IF IsMember(u, group.id)
                THEN Answer("join_group", u, group.id, 302, AlreadyMember, "")
                ELSE /\ members' = members \cup {Membership(u, group.id)}
                     /\ resp' = Resp("join_group", u, group.id, 302, "You joined!", "")
                     /\ UNCHANGED <<users, subjects, notes, groups, shared>>

view_group(u, group_id) ==
    /\ u \in sessions
    /\ IF group_id \notin Ids(groups) THEN Abort("view_group", u, group_id, 404)
       ELSE IF ~IsMember(u, group_id) /\ Row(groups, group_id).created_by # u
       THEN Abort("view_group", u, group_id, 403)
       ELSE Answer("view_group", u, group_id, 200, "", "")

AlreadyShared == "This note is already shared in this group!"

\* share_note_to_group without the look-up of an existing row.
share_note_to_group_unchecked(u, group_id, note_id) ==
    /\ u \in sessions
    /\ IF group_id \notin Ids(groups)
       THEN resp' = RespOn("share_note_to_group", u, group_id, note_id, 404, "", "")
            /\ UNCHANGED dbvars
       ELSE IF ~IsMember(u, group_id)
       THEN resp' = RespOn("share_note_to_group", u, group_id, note_id, 403, "", "")
            /\ UNCHANGED dbvars
       ELSE IF note_id \notin Ids(notes)
       THEN resp' = RespOn("share_note_to_group", u, group_id, note_id, 404, "", "")
            /\ UNCHANGED dbvars
       ELSE IF NoteOwner(Row(notes, note_id)) # u
       THEN resp' = RespOn("share_note_to_group", u, group_id, note_id, 403, "", "")
            /\ UNCHANGED dbvars
       ELSE /\ shared' = shared \cup {NewSharedNote(NextId(shared), note_id, group_id, u)}
            /\ resp' = RespOn("share_note_to_group", u, group_id, note_id, 302,
                              "Note shared with the group!", "")
            /\ UNCHANGED <<users, subjects, notes, groups, members>>

\* share_note_to_group without the owner test on the note.
share_note_to_group_any_note(u, group_id, note_id) ==
    /\ u \in sessions
    /\ IF group_id \notin Ids(groups) \/ ~IsMember(u, group_id) \/ note_id \notin Ids(notes)
       THEN resp' = RespOn("share_note_to_group", u, group_id, note_id, 404, "", "")
            /\ UNCHANGED dbvars
       ELSE IF \E x \in shared : x.note_id = note_id /\ x.group_id = group_id
       THEN resp' = RespOn("share_note_to_group", u, group_id, note_id, 302,
                           AlreadyShared, "")
            /\ UNCHANGED dbvars
       ELSE /\ shared' = shared \cup {NewSharedNote(NextId(shared), note_id, group_id, u)}
            /\ resp' = RespOn("share_note_to_group", u, group_id, note_id, 302,
                              "Note shared with the group!", "")
            /\ UNCHANGED <<users, subjects, notes, groups, members>>

\* note_id 0 stands for a form without the field.
share_note_to_group(u, group_id, note_id) ==
    /\ u \in sessions
    /\ IF group_id \notin Ids(groups)
       THEN resp' = RespOn("share_note_to_group", u, group_id, note_id, 404, "", "")
            /\ UNCHANGED dbvars
       ELSE IF ~IsMember(u, group_id)
       THEN resp' = RespOn("share_note_to_group", u, group_id, note_id, 403, "", "")
            /\ UNCHANGED dbvars
       ELSE IF note_id \notin Ids(notes)
       THEN resp' = RespOn("share_note_to_group", u, group_id, note_id, 404, "", "")
            /\ UNCHANGED dbvars
       ELSE IF NoteOwner(Row(notes, note_id)) # u
       THEN resp' = RespOn("share_note_to_group", u, group_id, note_id, 403, "", "")
            /\ UNCHANGED dbvars
       ELSE IF \E x \in shared : x.note_id = note_id /\ x.group_id = group_id
       THEN resp' = RespOn("share_note_to_group", u, group_id, note_id, 302,
                           AlreadyShared, "")
            /\ UNCHANGED dbvars
       ELSE /\ shared' = shared \cup {NewSharedNote(NextId(shared), note_id, group_id, u)}
            /\ resp' = RespOn("share_note_to_group", u, group_id, note_id, 302,
                              "Note shared with the group!", "")
            /\ UNCHANGED <<users, subjects, notes, groups, members>>

leave_group(u, group_id) ==
    /\ u \in sessions
    /\ IF group_id \notin Ids(groups) THEN Abort("leave_group", u, group_id, 404)
       ELSE IF IsMember(u, group_id)
       THEN /\ members' = members \ {Membership(u, group_id)}
            /\ resp' = Resp("leave_group", u, group_id, 302, "You left the group.", "")
            /\ UNCHANGED <<users, subjects, notes, groups, shared>>
       ELSE Answer("leave_group", u, group_id, 302, "", "")

(***************************************************************************)
(* Passwords: werkzeug's salted hash.                                      *)
(***************************************************************************)
Salts == {"s1", "s2"}
Digest(salt, password) == <<salt, password>>
\* generate_password_hash(password), for the salt it draws
generate_password_hash(password, salt) ==
    [salt |-> salt, digest |-> Digest(salt, password)]
\* check_password_hash(pwhash, password)
check_password_hash(pwhash, password) == Digest(pwhash.salt, password) = pwhash.digest

NewUser(id, username, email, password, salt) ==
    [id |-> id, username |-> username, email |-> email,
     password_hash |-> generate_password_hash(password, salt)]

(***************************************************************************)
(* Registration and login.  An e-mail address is the sequence of its       *)
(* parts: local part, "@", domain.                                         *)
(***************************************************************************)
\* str.lower() on the parts of the addresses of this model.
LowerPart(part) ==
    CASE part = "A" -> "a"
      [] part = "B" -> "b"
      [] part = "C" -> "c"
      [] part = "X.IO" -> "x.io"
      [] OTHER -> part
Lower(email) == [i \in DOMAIN email |-> LowerPart(email[i])]

\* Email(): a local part, one "@" and a domain.
EmailOk(email) == Len(email) = 3 /\ email[2] = "@" /\ email[1] # "" /\ email[3] # ""

UsernameMin == 3
UsernameMax == 80
PasswordMin == 4

\* RegistrationForm.validate_username
validate_username(username) == ~\E x \in users : x.username = username
\* RegistrationForm.validate_email
validate_email(email) == ~\E x \in users : x.email = Lower(email)

\* The field validators of RegistrationForm, then its two validate_ methods.
RegistrationFormValid(f) ==
    /\ DataRequired(f.username) /\ LengthOk(f.username, UsernameMin, UsernameMax)
    /\ f.email # <<>> /\ EmailOk(f.email)
    /\ DataRequired(f.password) /\ Len(f.password) >= PasswordMin
    /\ DataRequired(f.confirm) /\ f.confirm = f.password
    /\ validate_username(f.username)
    /\ validate_email(f.email)

AccountCreated == "Congratulations! Your account has been created. You can now log in."

\* unique=True of users.username and users.email: the commit of a row that
\* repeats one of them raises.
UniqueViolation(username, email) ==
    \E x \in users : x.username = username \/ x.email = email

\* register storing the address as submitted.
register_mixed_case(cu, f, salt) ==
    /\ cu \in sessions \cup {0}
    /\ form' = f
    /\ IF cu # 0
       THEN resp' = Resp("register", cu, 0, 302, "", "dashboard")
            /\ UNCHANGED <<users, sessions>>
       ELSE IF ValidateOnSubmit(f.method, RegistrationFormValid(f))
       THEN IF UniqueViolation(f.username, f.email)
            THEN resp' = Resp("register", cu, 0, 200,
                              "An error occurred during registration. Please try again.", "")
                 /\ UNCHANGED <<users, sessions>>
            ELSE /\ users' = users \cup
                       {NewUser(NextId(users), f.username, f.email, f.password, salt)}
                 /\ resp' = Resp("register", cu, NextId(users), 302, AccountCreated, "login")
                 /\ UNCHANGED sessions
       ELSE resp' = Resp("register", cu, 0, 200, "", "")
            /\ UNCHANGED <<users, sessions>>

\* cu is current_user: the id of the signed-in user of the client, 0 for an
\* anonymous client.  salt is the salt generate_password_hash draws.  resp.arg
\* is the id of the user created, 0 for none.
register(cu, f, salt) ==
    /\ cu \in sessions \cup {0}
    /\ form' = f
    /\ IF cu # 0
       THEN resp' = Resp("register", cu, 0, 302, "", "dashboard")
            /\ UNCHANGED <<users, sessions>>
       ELSE IF ValidateOnSubmit(f.method, RegistrationFormValid(f))
       THEN IF UniqueViolation(f.username, Lower(f.email))
            THEN resp' = Resp("register", cu, 0, 200,
                              "An error occurred during registration. Please try again.", "")
                 /\ UNCHANGED <<users, sessions>>
            ELSE /\ users' = users \cup
                       {NewUser(NextId(users), f.username, Lower(f.email), f.password, salt)}
                 /\ resp' = Resp("register", cu, NextId(users), 302, AccountCreated, "login")
                 /\ UNCHANGED sessions
       ELSE resp' = Resp("register", cu, 0, 200, "", "")
            /\ UNCHANGED <<users, sessions>>

\* The validators of LoginForm.
LoginFormValid(f) ==
    /\ f.email # <<>> /\ EmailOk(f.email)
    /\ DataRequired(f.password)

InvalidCredentials == "Invalid email or password. Please try again."

\* User.query.filter_by(email=form.email.data.lower()).first(): the set of the
\* rows found (at most one, the column being unique).
UserByEmail(email) == {x \in users : x.email = Lower(email)}

\* login without check_password.
login_unverified(cu, f) ==
    /\ cu \in sessions \cup {0}
    /\ form' = f
    /\ IF cu # 0
       THEN resp' = Resp("login", cu, 0, 302, "", "dashboard") /\ UNCHANGED <<users, sessions>>
       ELSE IF ValidateOnSubmit(f.method, LoginFormValid(f))
       THEN IF UserByEmail(f.email) = {}
            THEN resp' = Resp("login", cu, 0, 302, InvalidCredentials, "login")
                 /\ UNCHANGED <<users, sessions>>
            ELSE LET user == CHOOSE x \in UserByEmail(f.email) : TRUE
                 IN  /\ sessions' = sessions \cup {user.id}
                     /\ resp' = Resp("login", cu, user.id, 302, "Welcome back!", "dashboard")
                     /\ UNCHANGED users
       ELSE resp' = Resp("login", cu, 0, 200, "", "") /\ UNCHANGED <<users, sessions>>

\* resp.arg is the id of the user the session was created for, 0 for none.
login(cu, f) ==
    /\ cu \in sessions \cup {0}
    /\ form' = f
    /\ IF cu # 0
       THEN resp' = Resp("login", cu, 0, 302, "", "dashboard") /\ UNCHANGED <<users, sessions>>
       ELSE IF ValidateOnSubmit(f.method, LoginFormValid(f))
       THEN IF \/ UserByEmail(f.email) = {}
               \/ ~check_password_hash(
                      (CHOOSE x \in UserByEmail(f.email) : TRUE).password_hash, f.password)
            THEN resp' = Resp("login", cu, 0, 302, InvalidCredentials, "login")
                 /\ UNCHANGED <<users, sessions>>
            ELSE LET user == CHOOSE x \in UserByEmail(f.email) : TRUE
                 IN  /\ sessions' = sessions \cup {user.id}
                     /\ resp' = Resp("login", cu, user.id, 302, "Welcome back!", "dashboard")
                     /\ UNCHANGED users
       ELSE resp' = Resp("login", cu, 0, 200, "", "") /\ UNCHANGED <<users, sessions>>

logout(u) ==
    /\ u \in sessions
    /\ sessions' = sessions \ {u}
    /\ form' = NoForm
    /\ resp' = Resp("logout", u, 0, 302, "You have been logged out successfully.", "")
    /\ UNCHANGED users

(***************************************************************************)
(* Exam dates.  A datetime is a number of hours.                           *)
(***************************************************************************)
NewExam(id, subject_name, exam_date, user_id) ==
    [id |-> id, subject_name |-> subject_name, exam_date |-> exam_date,
     user_id |-> user_id]

\* datetime.strptime(exam_date_str, '%Y-%m-%dT%H:%M') on the strings submitted
\* in this model: the hour the string names, or -1 where strptime raises.
ExamDateStrings == {"2026-01-01T00:00", "2026-01-02T12:00", "tomorrow", ""}
Strptime(text) ==
    CASE text = "2026-01-01T00:00" -> 0
      [] text = "2026-01-02T12:00" -> 36
      [] OTHER -> -1

\* The exam row is added when strptime takes the string; the handler catches
\* every exception, flashes and redirects.
add_exam(u, subject_name, exam_date_str) ==
    /\ u \in sessions
    /\ IF Strptime(exam_date_str) >= 0
       THEN /\ exams' = exams \cup
                  {NewExam(NextId(exams), Strip(subject_name), Strptime(exam_date_str), u)}
            /\ resp' = Resp("add_exam", u, NextId(exams), 302, "Exam date added!", "")
            /\ UNCHANGED <<users, subjects, notes, groups, members, shared, notifications>>
       ELSE Answer("add_exam", u, 0, 302, "Error adding exam date.", "")

\* delete_exam with the two tests in the other order.
delete_exam_owner_first(u, exam_id) ==
    /\ u \in sessions
    /\ IF \A e \in exams : e.id = exam_id => e.user_id # u
       THEN Abort("delete_exam", u, exam_id, 403)
       ELSE /\ exams' = exams \ {Row(exams, exam_id)}
            /\ resp' = Resp("delete_exam", u, exam_id, 302, "Exam date deleted.", "")
            /\ UNCHANGED <<users, subjects, notes, groups, members, shared, notifications>>

delete_exam(u, exam_id) ==
    /\ u \in sessions
    /\ IF exam_id \notin Ids(exams) THEN Abort("delete_exam", u, exam_id, 404)
       ELSE IF Row(exams, exam_id).user_id # u THEN Abort("delete_exam", u, exam_id, 403)
       ELSE /\ exams' = exams \ {Row(exams, exam_id)}
            /\ resp' = Resp("delete_exam", u, exam_id, 302, "Exam date deleted.", "")
            /\ UNCHANGED <<users, subjects, notes, groups, members, shared, notifications>>

(***************************************************************************)
(* Leaderboard.                                                            *)
(***************************************************************************)
\* sum(...) over the elements of a set.
RECURSIVE SumOf(_, _)
SumOf(f, S) ==
    IF S = {} THEN 0
    ELSE LET x == CHOOSE y \in S : TRUE IN f[x] + SumOf(f, S \ {x})

\* user.subjects
SubjectsOf(user) == {s \in subjects : s.user_id = user.id}
\* Subject.note_count: self.notes.count()
note_count(s) == Cardinality({n \in notes : n.subject_id = s.id})
\* s.notes.filter_by(progress='mastered').count()
mastered_count(s) ==
    Cardinality({n \in notes : n.subject_id = s.id /\ n.progress = "mastered"})

NotePoints == 10
SubjectPoints == 5
MasteredPoints == 20

\* The score with the subjects left out of it.
score_notes_only(total_notes, total_subjects, mastered) ==
    (total_notes * NotePoints) + (mastered * MasteredPoints)

\* score = (total_notes * 10) + (total_subjects * 5) + (mastered * 20)
score(total_notes, total_subjects, mastered) ==
    (total_notes * NotePoints) + (total_subjects * SubjectPoints)
        + (mastered * MasteredPoints)

\* The entry of one user, before the ranks are set.
Entry(user, cu) ==
    LET total_notes == SumOf([s \in SubjectsOf(user) |-> note_count(s)], SubjectsOf(user))
        total_subjects == Cardinality(SubjectsOf(user))
        mastered ==
            SumOf([s \in SubjectsOf(user) |-> mastered_count(s)], SubjectsOf(user))
    IN  [username |-> user.username, total_notes |-> total_notes,
         total_subjects |-> total_subjects, mastered |-> mastered,
         score |-> score(total_notes, total_subjects, mastered),
         is_me |-> user.id = cu, rank |-> 0]

\* list.sort(key=score, reverse=True) is stable: an entry goes behind the
\* entries of a greater or an equal score that stood before it.
InsertByScore(e, sorted) ==
    LET ahead == {i \in 1..Len(sorted) : sorted[i].score >= e.score}
        k == MaxOf(ahead)
    IN  SubSeq(sorted, 1, k) \o <<e>> \o SubSeq(sorted, k + 1, Len(sorted))

\* The same list left in the order of the query.
SortByScore_unsorted(entries) == entries

RECURSIVE SortByScore(_)
SortByScore(entries) ==
    IF entries = <<>> THEN <<>>
    ELSE InsertByScore(entries[Len(entries)],
                       SortByScore(SubSeq(entries, 1, Len(entries) - 1)))

\* for i, entry in enumerate(leaderboard_data): entry['rank'] = i + 1
Ranked(entries) == [p \in 1..Len(entries) |-> [entries[p] EXCEPT !.rank = p]]

\* The orders in which User.query.all() can list the users: the query names
\* no order.
UserOrders ==
    {o \in [1..Cardinality(users) -> users] : \A i, j \in DOMAIN o : o[i] = o[j] => i = j}

leaderboard(u, order) ==
    /\ u \in sessions
    /\ order \in UserOrders
    /\ Answer("leaderboard", u, 0, 200, "",
              Ranked(SortByScore([i \in DOMAIN order |-> Entry(order[i], u)])))

(***************************************************************************)
(* Subjects and notes: every user is registered and signed in, the tables  *)
(* are empty.                                                              *)
(***************************************************************************)
SeedUsers ==
    { NewUser(1, "alice", <<"a", "@", "x">>, "pass", "s1"),
      NewUser(2, "bob", <<"b", "@", "x">>, "word", "s2") }
UserIds == Ids(SeedUsers)

AllTimeout == [i \in 1..Len(FREE_MODELS) |-> Failure("timeout")]
AiEnvs ==
    { [key |-> "sk-or-v1", outcomes |-> AllTimeout],
      [key |-> "sk-or-v1", outcomes |-> [AllTimeout EXCEPT ![1] = Content("Sure"),
                                                           ![3] = Content(CardsJson)]] }

Init ==
    /\ users = SeedUsers
    /\ sessions = UserIds
    /\ subjects = {}
    /\ notes = {}
    /\ groups = {}
    /\ members = {}
    /\ shared = {}
    /\ fk_enforced = FALSE
    /\ form = NoForm
    /\ resp = NoResp
    /\ ai_in = NoCall
    /\ ai_out = NoResult
    /\ cg = NoRequests
    /\ exams = {}
    /\ notifications = {}
    /\ commit_ok = TRUE


\* The worker hands the answer to the client and is free for the next request.
respond ==
    /\ resp # NoResp
    /\ resp' = NoResp
    /\ form' = NoForm
    /\ UNCHANGED dbvars

\* One worker: a request is handled to completion before the next one.
Idle == resp = NoResp

\* A handler of the subject, note and group routes runs for a signed-in user;
\* it leaves the sessions alone and reads no credentials.
Serve(handler) == handler /\ UNCHANGED <<sessions, fk_enforced, form, aivars, xvars>>
Respond == respond /\ UNCHANGED <<sessions, fk_enforced, aivars, xvars>>

SubjectIds == 1..MaxSubjects
NoteIds == 1..MaxNotes

Next ==
    \/ Idle /\ \E u \in UserIds, m \in Methods, name \in SubjectNames \cup {"M"} :
          NextId(subjects) <= MaxSubjects /\ Serve(create_subject(u, m, name))
    \/ Idle /\ \E u \in UserIds, sid \in SubjectIds : Serve(view_subject(u, sid))
    \/ Idle /\ \E u \in UserIds, sid \in SubjectIds, m \in Methods, name \in SubjectNames \cup {"M"} :
          Serve(edit_subject(u, sid, m, name))
    \/ Idle /\ \E u \in UserIds, sid \in SubjectIds : Serve(delete_subject(u, sid))
    \/ Idle /\ \E u \in UserIds, sid \in SubjectIds, m \in Methods, t \in Titles \cup {"T"},
          c \in Contents :
          NextId(notes) <= MaxNotes /\ Serve(create_note(u, sid, m, t, c))
    \/ Idle /\ \E u \in UserIds, nid \in NoteIds : Serve(view_note(u, nid))
    \/ Idle /\ \E u \in UserIds, nid \in NoteIds : Serve(export_note(u, nid))
    \/ Idle /\ \E u \in UserIds, nid \in NoteIds : Serve(flashcards(u, nid))
    \/ Idle /\ \E u \in UserIds, nid \in NoteIds : Serve(mindmap(u, nid))
    \/ Idle /\ \E u \in UserIds, nid \in NoteIds, m \in Methods, t \in Titles \cup {"T"},
          c \in Contents :
          Serve(edit_note(u, nid, m, t, c))
    \/ Idle /\ \E u \in UserIds, nid \in NoteIds : Serve(delete_note(u, nid))
    \/ Idle /\ \E u \in UserIds, nid \in NoteIds : Serve(toggle_pin_note(u, nid))
    \/ Idle /\ \E u \in UserIds, nid \in NoteIds, p \in FewProgressInputs :
          Serve(update_progress(u, nid, p))
    \/ Idle /\ \E u \in UserIds, nid \in NoteIds, c \in NoteColors :
          Serve(update_note_color(u, nid, c))
    \/ Idle /\ \E u \in UserIds, nid \in NoteIds, built \in BOOLEAN :
          Serve(export_note_pdf(u, nid, built))
    \/ Idle /\ \E u \in UserIds, sid \in 0..MaxSubjects, t \in Titles \cup {""}, c \in Contents :
          NextId(notes) <= MaxNotes /\ Serve(save_generated_note(u, sid, t, c))
    \/ Idle /\ \E u \in UserIds, nid \in NoteIds, env \in AiEnvs : Serve(ai_summarize(u, nid, env))
    \/ Idle /\ \E u \in UserIds, nid \in NoteIds, env \in AiEnvs : Serve(ai_quiz(u, nid, env))
    \/ Idle /\ \E u \in UserIds, nid \in NoteIds, env \in AiEnvs : Serve(ai_explain(u, nid, env))
    \/ Idle /\ \E u \in UserIds, nid \in NoteIds, env \in AiEnvs : Serve(ai_improve(u, nid, env))
    \/ Idle /\ \E u \in UserIds, nid \in NoteIds, q \in {"", "Why?"}, env \in AiEnvs :
          Serve(ai_chat(u, nid, q, env))
    \/ Idle /\ \E u \in UserIds, nid \in NoteIds, env \in AiEnvs :
          Serve(generate_flashcards(u, nid, env))
    \/ Idle /\ \E u \in UserIds, nid \in NoteIds, env \in AiEnvs :
          Serve(generate_mindmap(u, nid, env))
    \/ Respond

Spec == Init /\ [][Next]_vars

(***************************************************************************)
(* C1.  The ownership gate.                                                *)
(***************************************************************************)
\* The routes whose URL names a subject, and those whose URL names a note.
SubjectRoutes == {"view_subject", "edit_subject", "delete_subject", "create_note"}
NoteRoutes ==
    {"view_note", "edit_note", "delete_note", "export_note", "toggle_pin_note",
     "update_progress", "update_note_color", "ai_summarize", "ai_quiz", "ai_explain",
     "ai_improve", "ai_chat", "flashcards", "generate_flashcards", "mindmap",
     "generate_mindmap", "export_note_pdf"}

\* The answer r is to a request for a subject or a note that exists, in the
\* tables as they are, and belongs to another user than the one asking.
Foreign(r) ==
    \/ /\ r.route \in SubjectRoutes
       /\ r.arg \in Ids(subjects)
       /\ Row(subjects, r.arg).user_id # r.user
    \/ /\ r.route \in NoteRoutes
       /\ r.arg \in Ids(notes)
       /\ NoteOwner(Row(notes, r.arg)) # r.user

\* C1: a request of user A for a subject of another user B, or for a note whose
\* parent subject is B's, on any of the subject and note routes, is answered
\* 403 and changes no table.
C1_ForeignRequestForbidden ==
    [][(resp = NoResp /\ resp' # NoResp /\ Foreign(resp'))
          => (resp'.status = 403 /\ UNCHANGED dbvars)]_vars

\* A user was refused the colour change of a note of the other user.
C1_Witness ==
    /\ resp.route = "update_note_color"
    /\ resp.status = 403
    /\ Foreign(resp)

(***************************************************************************)
(* The life of subjects and notes: creation, progress, deletion.  The      *)
(* fields of a note other than its progress keep one value, so that two    *)
(* subjects of two notes fit.                                              *)
(***************************************************************************)
NextLife ==
    \/ Idle /\ \E u \in UserIds :
          NextId(subjects) <= LifeSubjects /\ Serve(create_subject(u, "POST", "Math"))
    \/ Idle /\ \E u \in UserIds, sid \in 1..LifeSubjects, c \in Contents :
          NextId(notes) <= LifeNotes /\ Serve(create_note(u, sid, "POST", "Chapter 5", c))
    \/ Idle /\ \E u \in UserIds, sid \in 1..LifeSubjects, c \in Contents :
          NextId(notes) <= LifeNotes /\ Serve(save_generated_note(u, sid, "Chapter 5", c))
    \/ Idle /\ \E u \in UserIds, nid \in 1..LifeNotes, c \in Contents :
          Serve(edit_note(u, nid, "POST", "Chapter 5", c))
    \/ Idle /\ \E u \in UserIds, nid \in 1..LifeNotes, p \in ProgressInputs :
          Serve(update_progress(u, nid, p))
    \/ Idle /\ \E u \in UserIds, nid \in 1..LifeNotes : Serve(delete_note(u, nid))
    \/ Idle /\ \E u \in UserIds, sid \in 1..LifeSubjects : Serve(delete_subject(u, sid))
    \/ Respond

SpecLife == Init /\ [][NextLife]_vars

(***************************************************************************)
(* C2.  The progress of a note.                                            *)
(***************************************************************************)
\* C2: the progress of every note is unread, reading or mastered in every
\* reachable state, a note that appears has progress unread, and an
\* update_progress request with any other value leaves the notes as they were.
C2_ProgressEnum ==
    /\ [](\A n \in notes : n.progress \in ProgressValues)
    /\ [][\A n \in notes' : n.id \notin Ids(notes) => n.progress = "unread"]_vars
    /\ [][(resp = NoResp /\ resp'.route = "update_progress"
              /\ resp'.val \notin ProgressValues) => notes' = notes]_vars

\* The owner of a mastered note submitted the value "done" for it.
C2_Witness ==
    /\ resp.route = "update_progress"
    /\ resp.status = 200
    /\ resp.val = "done"
    /\ resp.arg \in Ids(notes)
    /\ Row(notes, resp.arg).progress = "mastered"

(***************************************************************************)
(* C4.  Deleting a subject.                                                *)
(***************************************************************************)
DeleteSubjectDone(r) ==
    /\ r.route = "delete_subject"
    /\ r.flash = "Subject and note(s) deleted successfully."

\* C4: after a delete_subject that succeeded on subject S, S is gone, no note
\* has subject_id S, and the other subjects and the notes of the other
\* subjects are as they were.
C4_DeleteSubjectCascade ==
    [][(resp = NoResp /\ DeleteSubjectDone(resp'))
          => /\ resp'.arg \notin Ids(subjects')
             /\ \A n \in notes' : n.subject_id # resp'.arg
             /\ subjects' = {s \in subjects : s.id # resp'.arg}
             /\ notes' = {n \in notes : n.subject_id # resp'.arg}
             /\ Row(subjects, resp'.arg).user_id = resp'.user]_vars

\* Subject 1 was deleted while subject 2 and its note stay; note 1 is gone.
C4_Witness ==
    /\ DeleteSubjectDone(resp)
    /\ resp.arg = 1
    /\ 2 \in Ids(subjects)
    /\ \E n \in notes : n.id = 2 /\ n.subject_id = 2
    /\ 1 \notin Ids(notes)

(***************************************************************************)
(* Study groups: each user is signed in and owns one subject with one      *)
(* note; there is no group yet.  The engine may or may not enforce foreign *)
(* keys.                                                                   *)
(***************************************************************************)
InitGroup ==
    /\ users = SeedUsers
    /\ sessions = UserIds
    /\ subjects = {NewSubject(u, "Math", u) : u \in UserIds}
    /\ notes = {NewNote(u, "Chapter 5", "Linear equations and measurements", u) :
                   u \in UserIds}
    /\ groups = {}
    /\ members = {}
    /\ shared = {}
    /\ fk_enforced \in BOOLEAN
    /\ form = NoForm
    /\ resp = NoResp
    /\ ai_in = NoCall
    /\ ai_out = NoResult
    /\ cg = NoRequests
    /\ exams = {}
    /\ notifications = {}
    /\ commit_ok = TRUE

DrawSeqs == UNION {[1..n -> Codes] : n \in 1..MaxDraws}

NextGroup ==
    \/ Idle /\ \E u \in UserIds, name \in {"Study", ""}, draws \in DrawSeqs :
          NextId(groups) <= MaxGroups /\ Serve(create_group(u, name, draws))
    \/ Idle /\ \E u \in UserIds, code \in Codes \cup {"aaaa1111"} :
          Serve(join_group(u, code))
    \/ Idle /\ \E u \in UserIds, gid \in 1..MaxGroups : Serve(view_group(u, gid))
    \/ Idle /\ \E u \in UserIds, gid \in 1..MaxGroups, nid \in 0..Cardinality(UserIds) :
          NextId(shared) <= MaxShared /\ Serve(share_note_to_group(u, gid, nid))
    \/ Idle /\ \E u \in UserIds, gid \in 1..MaxGroups : Serve(leave_group(u, gid))
    \/ Respond

SpecGroup == InitGroup /\ [][NextGroup]_vars

(***************************************************************************)
(* C3.  Sharing a note into a group once.                                  *)
(***************************************************************************)
PairShared(note_id, group_id) ==
    \E x \in shared : x.note_id = note_id /\ x.group_id = group_id

\* The answer r is to a share request of a member of the group for a note of
\* their own.
MayShare(r) ==
    /\ r.route = "share_note_to_group"
    /\ r.arg \in Ids(groups)
    /\ IsMember(r.user, r.arg)
    /\ r.arg2 \in Ids(notes)
    /\ NoteOwner(Row(notes, r.arg2)) = r.user

\* C3: a share request of an authorized user for a pair (note, group) that has
\* a row adds no row and is answered "already shared"; in every reachable
\* state a pair (note, group) has at most one row.
C3_ShareOnce ==
    /\ [][(resp = NoResp /\ MayShare(resp') /\ PairShared(resp'.arg2, resp'.arg))
             => (shared' = shared /\ resp'.flash = AlreadyShared)]_vars
    /\ [](\A x, y \in shared :
             (x.note_id = y.note_id /\ x.group_id = y.group_id) => x = y)

\* A member was told that their note is already shared in the group.
C3_Witness ==
    /\ resp.flash = AlreadyShared
    /\ MayShare(resp)
    /\ PairShared(resp.arg2, resp.arg)

(***************************************************************************)
(* C7.  The access check of the group routes.                              *)
(***************************************************************************)
\* user in group.members or user.id == group.created_by
MemberOrCreator(u, group_id) ==
    IsMember(u, group_id) \/ Row(groups, group_id).created_by = u

\* C7: view_group and share_note_to_group let the acting user through exactly
\* when the user is a member of the group or its creator, and answer 403
\* otherwise, also for a creator who has left the group.  (A share request let
\* through is still answered 403 for a note of another user.)
C7_MemberOrCreatorGate ==
    [][(resp = NoResp /\ resp'.route \in {"view_group", "share_note_to_group"}
           /\ resp'.arg \in Ids(groups))
          => IF MemberOrCreator(resp'.user, resp'.arg)
             THEN resp'.status = 403
                     => /\ resp'.route = "share_note_to_group"
                        /\ resp'.arg2 \in Ids(notes)
                        /\ NoteOwner(Row(notes, resp'.arg2)) # resp'.user
             ELSE resp'.status = 403]_vars

(***************************************************************************)
(* Accounts: registration, login and logout from an empty table of users.  *)
(***************************************************************************)
InitAuth ==
    /\ users = {}
    /\ sessions = {}
    /\ subjects = {}
    /\ notes = {}
    /\ groups = {}
    /\ members = {}
    /\ shared = {}
    /\ fk_enforced = FALSE
    /\ form = NoForm
    /\ resp = NoResp
    /\ ai_in = NoCall
    /\ ai_out = NoResult
    /\ cg = NoRequests
    /\ exams = {}
    /\ notifications = {}
    /\ commit_ok = TRUE

AuthUsernames == {"alice", "bob", "al"}
AuthEmails ==
    { <<"a", "@", "x.io">>, <<"A", "@", "X.IO">>, <<"b", "@", "x.io">>,
      <<"a", "x.io">> }
AuthPasswords == {"pass", "word", "pw", ""}

RegistrationForms ==
    [method : Methods, username : AuthUsernames, email : AuthEmails,
     password : AuthPasswords \ {""}, confirm : {"pass", "word"}]
LoginForms ==
    [method : Methods, username : {""}, email : AuthEmails, password : AuthPasswords,
     confirm : {""}]

\* The account routes leave every table but users alone.
ServeAuth(handler) ==
    handler /\ UNCHANGED <<subjects, notes, groups, members, shared, fk_enforced, aivars,
                         xvars>>

NextAuth ==
    \/ Idle /\ \E cu \in 0..MaxUsers, f \in RegistrationForms, salt \in Salts :
          NextId(users) <= MaxUsers /\ ServeAuth(register(cu, f, salt))
    \/ Idle /\ \E cu \in 0..MaxUsers, f \in LoginForms : ServeAuth(login(cu, f))
    \/ Idle /\ \E u \in 1..MaxUsers : ServeAuth(logout(u))
    \/ Respond

SpecAuth == InitAuth /\ [][NextAuth]_vars

(***************************************************************************)
(* C5.  Registration with a name or an address that is taken.              *)
(***************************************************************************)
\* The submitted name is the name of a user, or the submitted address is, but
\* for the case of its letters, the address of a user.
Taken(f) ==
    \/ \E x \in users : x.username = f.username
    \/ \E x \in users : Lower(x.email) = Lower(f.email)

\* C5: register creates no user when the submitted username is the username of
\* a user, or the submitted e-mail address is, compared without regard to
\* case, the address of a user; a registration that is rejected leaves the
\* users as they were.
C5_RegisterRejectsTaken ==
    [][(resp = NoResp /\ resp'.route = "register")
          => /\ Taken(form') => users' = users
             /\ resp'.flash # AccountCreated => users' = users]_vars

\* The address A@X.IO was refused, under a free username, because a@x.io is
\* registered.
C5_Witness ==
    /\ resp.route = "register"
    /\ resp.status = 200
    /\ form.method = "POST"
    /\ form.email = <<"A", "@", "X.IO">>
    /\ form.password = form.confirm
    /\ \E x \in users : x.email = <<"a", "@", "x.io">>
    /\ \A x \in users : x.username # form.username
    /\ Len(form.username) >= UsernameMin

(***************************************************************************)
(* C6.  Login.                                                             *)
(***************************************************************************)
\* The user x has the submitted address, lowercased, and the submitted
\* password verifies against the stored hash of x.
Verified(f, x) ==
    /\ x.email = Lower(f.email)
    /\ check_password_hash(x.password_hash, f.password)

\* C6 as stated: login creates a session for U only if U has the submitted
\* address and the password verifies; in every other case no session is
\* created and the answer carries the invalid-credentials notice.
C6_LoginAsStated ==
    [][(resp = NoResp /\ resp'.route = "login")
          => /\ \A id \in sessions' \ sessions :
                   \E x \in users : x.id = id /\ Verified(form', x)
             /\ (~\E x \in users : Verified(form', x))
                   => (sessions' = sessions /\ resp'.flash = InvalidCredentials)]_vars

\* The request is a submission of an anonymous client that passes the
\* validators of the login form.
ValidSubmission(f, r) == r.user = 0 /\ f.method = "POST" /\ LoginFormValid(f)

\* C6 as amended: login creates a session for U only if U has the submitted
\* address and the password verifies.  A submission of an anonymous client that
\* passes form validation and fails one of the two is answered with the
\* invalid-credentials notice and creates no session.  A request that is no such
\* submission (a GET, a missing password, a malformed address, a client that is
\* signed in) creates no session and gets the form or the dashboard redirect,
\* without the notice.  No login ends a session.
C6_LoginOnlyVerified ==
    [][(resp = NoResp /\ resp'.route = "login")
          => /\ \A id \in sessions' \ sessions :
                   \E x \in users : x.id = id /\ Verified(form', x)
             /\ sessions \subseteq sessions'
             /\ (ValidSubmission(form', resp') /\ ~\E x \in users : Verified(form', x))
                   => (sessions' = sessions /\ resp'.flash = InvalidCredentials)
             /\ ~ValidSubmission(form', resp')
                   => (sessions' = sessions /\ resp'.flash # InvalidCredentials)]_vars

\* A registered user who is not signed in submitted a wrong password and got
\* the notice.
C6_Witness ==
    /\ resp.route = "login"
    /\ resp.flash = InvalidCredentials
    /\ \E x \in users :
          /\ x.email = Lower(form.email)
          /\ ~check_password_hash(x.password_hash, form.password)
          /\ x.id \notin sessions

(***************************************************************************)
(* The AI gateway on its own: call_ai under every environment of a key and *)
(* of one outcome for each model.                                          *)
(***************************************************************************)
ApiKeys == {"", PlaceholderKey, "sk-or-v1"}
ContentTexts == {"", "12345", "123456", AllModelsUnavailable}
Outcomes == {Failure(k) : k \in FailureKinds} \cup {Content(t) : t \in ContentTexts}

InitAI ==
    /\ users = SeedUsers
    /\ sessions = UserIds
    /\ subjects = {}
    /\ notes = {}
    /\ groups = {}
    /\ members = {}
    /\ shared = {}
    /\ fk_enforced = FALSE
    /\ form = NoForm
    /\ resp = NoResp
    /\ ai_in \in [key : ApiKeys, outcomes : [1..Len(FREE_MODELS) -> Outcomes]]
    /\ ai_out = NoResult
    /\ cg = NoRequests
    /\ exams = {}
    /\ notifications = {}
    /\ commit_ok = TRUE

\* A caller calls call_ai and gets what it returns, or the exception it lets
\* through.
CallAi ==
    /\ ai_out = NoResult
    /\ ai_out' = call_ai(ai_in.key, ai_in.outcomes)
    /\ UNCHANGED <<dbvars, sessions, fk_enforced, form, resp, ai_in, xvars>>

NextAI == CallAi

SpecAI == InitAI /\ [][NextAI]_vars

Called == ai_out # NoResult
KeySet == ai_in.key # "" /\ ai_in.key # PlaceholderKey
ModelIndexes == 1..Len(FREE_MODELS)

\* The response of the i-th model is well-formed and its content is longer than
\* 5 characters.
Accepts(outcomes, i) ==
    outcomes[i].kind = "content" /\ Len(outcomes[i].content) > MinContentLen
Accepting(outcomes) == {i \in ModelIndexes : Accepts(outcomes, i)}
FirstAccepting(outcomes) ==
    CHOOSE i \in Accepting(outcomes) : \A j \in Accepting(outcomes) : i <= j

\* The outcomes with every content of 5 characters or fewer replaced by a
\* failed request.
ShortAsFailed(outcomes) ==
    [i \in ModelIndexes |->
        IF outcomes[i].kind = "content" /\ Len(outcomes[i].content) <= MinContentLen
        THEN Failure("timeout") ELSE outcomes[i]]

(***************************************************************************)
(* C8.  The models are tried in list order up to the first usable answer.  *)
(***************************************************************************)
\* C8: with a key configured, call_ai contacts the models of FREE_MODELS in the
\* order of the list; when some model answers with a content longer than 5
\* characters, it returns the content of the first such model and contacts no
\* model after it; a content of 5 characters or fewer changes neither the
\* value returned nor the models contacted, compared with a failed request in
\* its place.
C8_FirstUsableInOrder ==
    (Called /\ KeySet) =>
        /\ Len(ai_out.contacted) <= Len(FREE_MODELS)
        /\ \A k \in 1..Len(ai_out.contacted) : ai_out.contacted[k] = FREE_MODELS[k]
        /\ Accepting(ai_in.outcomes) # {} =>
              /\ ai_out.text = ai_in.outcomes[FirstAccepting(ai_in.outcomes)].content
              /\ Len(ai_out.contacted) = FirstAccepting(ai_in.outcomes)
        /\ ai_out = call_ai(ai_in.key, ShortAsFailed(ai_in.outcomes))

\* The first model answered with 5 characters, the second failed, the third
\* answered with 6 characters and was returned; the last two were not
\* contacted.
C8_Witness ==
    /\ Called
    /\ KeySet
    /\ ai_in.outcomes[1] = Content("12345")
    /\ ai_in.outcomes[2] = Failure("http_error")
    /\ ai_in.outcomes[3] = Content("123456")
    /\ ai_in.outcomes[4] = Content("123456")
    /\ ai_out.text = "123456"
    /\ ai_out.contacted = SubSeq(FREE_MODELS, 1, 3)

(***************************************************************************)
(* C9.  No failure of a model reaches the caller.                          *)
(***************************************************************************)
\* C9: whatever each model comes to (transport error, timeout, non-success
\* status, malformed response, usable response), call_ai returns a value and
\* raises nothing; every model contacted before the last one contacted was
\* not usable, and a model that is not usable is followed by the next model of
\* the list as long as there is one.
C9_NeverRaises ==
    Called =>
        /\ ~ai_out.raised
        /\ ai_out.line \in {29, 55, 59}
        /\ KeySet =>
              \A i \in 1..Len(ai_out.contacted) :
                 ~Accepts(ai_in.outcomes, i) =>
                    (i < Len(FREE_MODELS) => Len(ai_out.contacted) > i)

\* The first four models failed in the four ways and the fifth was returned.
C9_Witness ==
    /\ Called
    /\ KeySet
    /\ ai_in.outcomes[1] = Failure("transport_error")
    /\ ai_in.outcomes[2] = Failure("timeout")
    /\ ai_in.outcomes[3] = Failure("http_error")
    /\ ai_in.outcomes[4] = Failure("malformed")
    /\ ai_in.outcomes[5] = Content("123456")
    /\ ai_out.text = "123456"
    /\ ~ai_out.raised

(***************************************************************************)
(* C10.  Every model failed.                                               *)
(***************************************************************************)
\* C10 as stated: with a key configured, when no model gives a usable content
\* call_ai returns the fixed all-models-unavailable text after having
\* contacted every model, and it returns that text only then.
C10_AsStated ==
    (Called /\ KeySet) =>
        /\ Accepting(ai_in.outcomes) = {} =>
              (ai_out.text = AllModelsUnavailable /\ ai_out.contacted = FREE_MODELS)
        /\ ai_out.text = AllModelsUnavailable => Accepting(ai_in.outcomes) = {}

\* C10 as amended: with a key configured, call_ai reaches its final return
\* exactly when no model gives a usable content; that return gives the fixed
\* all-models-unavailable text after every model was contacted.  The same text
\* comes back otherwise only as the usable content of the first usable model.
\* Without a key no model is contacted and the key notice is returned.
C10_AllFailed ==
    Called =>
        /\ KeySet => (Accepting(ai_in.outcomes) = {} <=> ai_out.line = 59)
        /\ ai_out.line = 59 =>
              (ai_out.text = AllModelsUnavailable /\ ai_out.contacted = FREE_MODELS)
        /\ (ai_out.text = AllModelsUnavailable /\ ai_out.line # 59) =>
              /\ Accepting(ai_in.outcomes) # {}
              /\ ai_in.outcomes[FirstAccepting(ai_in.outcomes)].content
                    = AllModelsUnavailable
        /\ ~KeySet => (ai_out.text = ApiKeyNotSet /\ ai_out.contacted = <<>>)

\* Models failed or answered with too little, one after the other, and the
\* final return was reached.
C10_Witness ==
    /\ Called
    /\ KeySet
    /\ ai_in.outcomes[1] = Failure("timeout")
    /\ ai_in.outcomes[2] = Content("")
    /\ ai_in.outcomes[3] = Content("12345")
    /\ Accepting(ai_in.outcomes) = {}
    /\ ai_out.line = 59
    /\ ai_out.text = AllModelsUnavailable
    /\ ai_out.contacted = FREE_MODELS

(***************************************************************************)
(* Overlapping create_group requests.                                      *)
(***************************************************************************)
ServeStep(step) ==
    step /\ UNCHANGED <<sessions, fk_enforced, form, resp, aivars, tvars>>

GroupNames == {"Study", "Exam prep", ""}

NextRace ==
    \/ \E w \in Workers, u \in UserIds, name \in {"Study", ""} :
          NextId(groups) <= MaxGroups /\ ServeStep(cg_begin(w, u, name))
    \/ \E w \in Workers, code \in Codes : ServeStep(cg_draw(w, code))
    \/ \E w \in Workers : ServeStep(cg_check(w))
    \/ \E w \in Workers : ServeStep(cg_insert(w))
    \/ \E w \in Workers : ServeStep(cg_respond(w))

SpecRace == Init /\ [][NextRace]_vars

(***************************************************************************)
(* C11.  Invite codes are unique.                                          *)
(***************************************************************************)
\* C11: in every reachable state no two groups hold the same invite code, and
\* a create_group request persists a group only under a code of 8 characters
\* that no group held before, also when the statements of two requests
\* interleave.
C11_InviteCodesUnique ==
    /\ [](\A g, h \in groups : g.invite_code = h.invite_code => g = h)
    /\ [][\A g \in groups' \ groups :
             /\ Len(g.invite_code) = InviteCodeLen
             /\ \A h \in groups : h.invite_code # g.invite_code]_vars

\* Two requests drew the same code and both found it free; the first insert
\* went through and the second was refused.
C11_Witness ==
    /\ cg[1].pc = "done" /\ cg[1].status = 302
    /\ cg[2].pc = "done" /\ cg[2].status = 500
    /\ cg[1].code = cg[2].code
    /\ Cardinality(groups) = 1

(***************************************************************************)
(* create_group requests one after the other, with a fair generator: an    *)
(* enabled statement is run, and a code that can be drawn again and again  *)
(* is drawn.                                                               *)
(***************************************************************************)
NextLoop ==
    \/ \E u \in UserIds, name \in GroupNames :
          NextId(groups) <= MaxGroups /\ ServeStep(cg_begin(1, u, name))
    \/ \E code \in Codes : ServeStep(cg_draw(1, code))
    \/ ServeStep(cg_check(1))
    \/ ServeStep(cg_insert(1))
    \/ ServeStep(cg_respond(1))

FairLoop ==
    /\ WF_vars(ServeStep(cg_check(1)))
    /\ WF_vars(ServeStep(cg_insert(1)))
    /\ \A code \in Codes : SF_vars(ServeStep(cg_draw(1, code)))

SpecLoop == Init /\ [][NextLoop]_vars /\ FairLoop

InLoop(w) == cg[w].pc \in {"draw", "check"}
CodeUnused == \E code \in Codes : ~CodeTaken(code)
Created(w) ==
    /\ cg[w].pc = "done"
    /\ cg[w].status = 302
    /\ \E g \in groups :
          /\ g.invite_code = cg[w].code
          /\ g.created_by = cg[w].user
          /\ Membership(cg[w].user, g.id) \in members

(***************************************************************************)
(* C12.  The retry loop ends.                                              *)
(***************************************************************************)
\* C12: a create_group request that is in its retry loop while some code is
\* unused eventually leaves the loop with a code no group holds, and the group
\* is created under that code, given a fair choice of codes.
C12_LoopTerminates == (InLoop(1) /\ CodeUnused) ~> Created(1)

\* The loop met a code that is taken and is about to draw again, while a code
\* is unused.
C12_Witness ==
    /\ cg[1].pc = "draw"
    /\ cg[1].code # ""
    /\ CodeTaken(cg[1].code)
    /\ CodeUnused

(***************************************************************************)
(* The leaderboard over tables of every shape: each subject is absent or   *)
(* holds some notes, some of them mastered.                                *)
(***************************************************************************)
BoardSubjects == 3
BoardNotes == 3
\* <<n, m>>: n notes, m of them mastered; n = -1 for a subject that is absent.
BoardShapes ==
    [1..BoardSubjects ->
        {<<-1, 0>>} \cup {<<n, m>> : n \in 0..BoardNotes, m \in 0..BoardNotes}]
BoardOwner(sid) == IF sid <= 2 THEN 1 ELSE 2
BoardName(sid) ==
    CASE sid = 1 -> "Math" [] sid = 2 -> "History" [] OTHER -> "Physics"
BoardProgress(k, m) ==
    IF k <= m THEN "mastered" ELSE IF k % 2 = 0 THEN "reading" ELSE "unread"
BoardSubjectRows(sh) ==
    {NewSubject(sid, BoardName(sid), BoardOwner(sid)) :
        sid \in {i \in DOMAIN sh : sh[i][1] >= 0}}
BoardNoteRows(sh) ==
    {[NewNote((sid - 1) * BoardNotes + k, "Chapter 5", "Linear equations", sid)
         EXCEPT !.progress = BoardProgress(k, sh[sid][2])] :
        sid \in DOMAIN sh, k \in 1..BoardNotes} 

InitBoard ==
    /\ users = SeedUsers
    /\ sessions = UserIds
    /\ \E sh \in BoardShapes :
          /\ \A sid \in DOMAIN sh : sh[sid][2] <= sh[sid][1] \/ sh[sid] = <<-1, 0>>
          /\ subjects = BoardSubjectRows(sh)
          /\ notes = {n \in BoardNoteRows(sh) :
                         n.id - (n.subject_id - 1) * BoardNotes <= sh[n.subject_id][1]}
    /\ groups = {}
    /\ members = {}
    /\ shared = {}
    /\ fk_enforced = FALSE
    /\ form = NoForm
    /\ resp = NoResp
    /\ ai_in = NoCall
    /\ ai_out = NoResult
    /\ cg = NoRequests
    /\ exams = {}
    /\ notifications = {}
    /\ commit_ok = TRUE

NextBoard ==
    \/ Idle /\ \E u \in UserIds, order \in UserOrders : Serve(leaderboard(u, order))
    \/ Respond

SpecBoard == InitBoard /\ [][NextBoard]_vars

BoardAnswered == resp.route = "leaderboard" /\ resp.status = 200
NotesOwnedBy(x) ==
    {n \in notes : \E s \in subjects : s.id = n.subject_id /\ s.user_id = x.id}
EntriesOf(x) == {p \in DOMAIN resp.val : resp.val[p].username = x.username}

(***************************************************************************)
(* C13.  The score.                                                        *)
(***************************************************************************)
\* C13: in the answer of the leaderboard the score of every user is 10 times
\* the number of the user's notes plus 5 times the number of the user's
\* subjects plus 20 times the number of the user's mastered notes, counted in
\* the tables as they are.
C13_Score ==
    BoardAnswered =>
        \A x \in users :
           /\ EntriesOf(x) # {}
           /\ \A p \in EntriesOf(x) :
                 resp.val[p].score =
                      10 * Cardinality(NotesOwnedBy(x))
                    + 5 * Cardinality({s \in subjects : s.user_id = x.id})
                    + 20 * Cardinality({n \in NotesOwnedBy(x) : n.progress = "mastered"})

\* Math with 3 notes, 1 mastered, and History with 2 notes, none mastered,
\* give their owner 80.
C13_Witness ==
    /\ BoardAnswered
    /\ \E x \in users, math, history \in subjects :
          /\ {s \in subjects : s.user_id = x.id} = {math, history}
          /\ math.name = "Math" /\ history.name = "History"
          /\ note_count(math) = 3 /\ mastered_count(math) = 1
          /\ note_count(history) = 2 /\ mastered_count(history) = 0
          /\ \E p \in EntriesOf(x) : resp.val[p].score = 80

(***************************************************************************)
(* C14.  Order and ranks.                                                  *)
(***************************************************************************)
\* C14: the leaderboard lists every user exactly once; the scores do not grow
\* down the list; the entry at position i counted from 0 has rank i + 1, so
\* the ranks are 1..N without a gap.
C14_Ranks ==
    BoardAnswered =>
        /\ Len(resp.val) = Cardinality(users)
        /\ \A x \in users : Cardinality(EntriesOf(x)) = 1
        /\ \A p \in DOMAIN resp.val : resp.val[p].rank = (p - 1) + 1
        /\ {resp.val[p].rank : p \in DOMAIN resp.val} = 1..Cardinality(users)
        /\ \A p, q \in DOMAIN resp.val :
              resp.val[p].rank < resp.val[q].rank => resp.val[p].score >= resp.val[q].score

\* The user registered second leads the list with the greater score.
C14_Witness ==
    /\ BoardAnswered
    /\ Len(resp.val) = 2
    /\ resp.val[1].username = "bob" /\ resp.val[1].rank = 1
    /\ resp.val[2].username = "alice" /\ resp.val[2].rank = 2
    /\ resp.val[1].score > resp.val[2].score
    /\ resp.val[2].score > 0

(***************************************************************************)
(* C15.  Joining twice, leaving without being a member.                    *)
(***************************************************************************)
\* C15: a join_group request of a user who is a member of the group the code
\* names changes no table and carries the already-a-member notice; a join
\* adds at most the one row of the user and the group; a leave_group request
\* of a user who is no member changes no table; and in every reachable state
\* group_members holds at most one row for a user and a group.
C15_JoinLeaveIdempotent ==
    /\ [][(resp = NoResp /\ resp'.route = "join_group" /\ resp'.arg # 0)
             => /\ IsMember(resp'.user, resp'.arg)
                      => (UNCHANGED dbvars /\ resp'.flash = AlreadyMember)
                /\ members' \subseteq members \cup {Membership(resp'.user, resp'.arg)}
                /\ members \subseteq members']_vars
    /\ [][(resp = NoResp /\ resp'.route = "leave_group"
              /\ ~IsMember(resp'.user, resp'.arg))
             => UNCHANGED dbvars]_vars
    /\ [](\A u \in UserIds, g \in groups :
             Cardinality({m \in members : m.user_id = u /\ m.group_id = g.id}) <= 1)

\* A member joined the group again, was told so, and is a member still.
C15_Witness ==
    /\ resp.route = "join_group"
    /\ resp.flash = AlreadyMember
    /\ IsMember(resp.user, resp.arg)
    /\ \E g \in groups : g.id = resp.arg /\ g.created_by # resp.user

(***************************************************************************)
(* Every route that names a record, over tables in which each user owns a  *)
(* subject with a note, an exam date and a group.  The identifiers run one *)
(* past the rows, so that some identifier names nothing.                   *)
(***************************************************************************)
ScopeIds == 3
InitScope ==
    /\ users = SeedUsers
    /\ sessions = UserIds
    /\ subjects = {NewSubject(u, "Math", u) : u \in UserIds}
    /\ notes = {NewNote(u, "Chapter 5", "Linear equations and measurements", u) :
                   u \in UserIds}
    /\ groups = {NewGroup(1, "Study", "AAAA1111", 1), NewGroup(2, "Study", "BBBB2222", 2)}
    /\ members = {Membership(u, u) : u \in UserIds}
    /\ shared = {}
    /\ fk_enforced = FALSE
    /\ form = NoForm
    /\ resp = NoResp
    /\ ai_in = NoCall
    /\ ai_out = NoResult
    /\ cg = NoRequests
    /\ exams = {NewExam(u, "Math", 36, u) : u \in UserIds}
    /\ notifications = {}
    /\ commit_ok = TRUE

ServeExam(handler) ==
    handler /\ UNCHANGED <<sessions, fk_enforced, form, aivars, cg, commit_ok>>

ScopeEnv == [key |-> "sk-or-v1", outcomes |-> AllTimeout]

NextScope ==
    \/ Idle /\ \E u \in UserIds, id \in 1..ScopeIds : Serve(view_subject(u, id))
    \/ Idle /\ \E u \in UserIds, id \in 1..ScopeIds, m \in Methods :
          Serve(edit_subject(u, id, m, "Math"))
    \/ Idle /\ \E u \in UserIds, id \in 1..ScopeIds : Serve(delete_subject(u, id))
    \/ Idle /\ \E u \in UserIds, id \in 1..ScopeIds, m \in Methods :
          NextId(notes) <= Cardinality(UserIds)
             /\ Serve(create_note(u, id, m, "Chapter 5", "Linear equations and measurements"))
    \/ Idle /\ \E u \in UserIds, id \in 0..ScopeIds, t \in {"Chapter 5", ""} :
          NextId(notes) <= Cardinality(UserIds)
             /\ Serve(save_generated_note(u, id, t, "Linear equations and measurements"))
    \/ Idle /\ \E u \in UserIds, id \in 1..ScopeIds : Serve(view_note(u, id))
    \/ Idle /\ \E u \in UserIds, id \in 1..ScopeIds : Serve(export_note(u, id))
    \/ Idle /\ \E u \in UserIds, id \in 1..ScopeIds : Serve(flashcards(u, id))
    \/ Idle /\ \E u \in UserIds, id \in 1..ScopeIds : Serve(mindmap(u, id))
    \/ Idle /\ \E u \in UserIds, id \in 1..ScopeIds, m \in Methods :
          Serve(edit_note(u, id, m, "Chapter 5", "Linear equations and measurements"))
    \/ Idle /\ \E u \in UserIds, id \in 1..ScopeIds : Serve(delete_note(u, id))
    \/ Idle /\ \E u \in UserIds, id \in 1..ScopeIds : Serve(toggle_pin_note(u, id))
    \/ Idle /\ \E u \in UserIds, id \in 1..ScopeIds : Serve(update_progress(u, id, "unread"))
    \/ Idle /\ \E u \in UserIds, id \in 1..ScopeIds :
          Serve(update_note_color(u, id, "#ffffff"))
    \/ Idle /\ \E u \in UserIds, id \in 1..ScopeIds : Serve(export_note_pdf(u, id, TRUE))
    \/ Idle /\ \E u \in UserIds, id \in 1..ScopeIds : Serve(ai_summarize(u, id, ScopeEnv))
    \/ Idle /\ \E u \in UserIds, id \in 1..ScopeIds : Serve(ai_quiz(u, id, ScopeEnv))
    \/ Idle /\ \E u \in UserIds, id \in 1..ScopeIds : Serve(ai_explain(u, id, ScopeEnv))
    \/ Idle /\ \E u \in UserIds, id \in 1..ScopeIds : Serve(ai_improve(u, id, ScopeEnv))
    \/ Idle /\ \E u \in UserIds, id \in 1..ScopeIds : Serve(ai_chat(u, id, "Why?", ScopeEnv))
    \/ Idle /\ \E u \in UserIds, id \in 1..ScopeIds :
          Serve(generate_flashcards(u, id, ScopeEnv))
    \/ Idle /\ \E u \in UserIds, id \in 1..ScopeIds :
          Serve(generate_mindmap(u, id, ScopeEnv))
    \/ Idle /\ \E u \in UserIds, id \in 1..ScopeIds : ServeExam(delete_exam(u, id))
    \/ Idle /\ \E u \in UserIds, id \in 1..ScopeIds : Serve(view_group(u, id))
    \/ Idle /\ \E u \in UserIds, id \in 1..ScopeIds, nid \in 1..ScopeIds :
          shared = {} /\ Serve(share_note_to_group(u, id, nid))
    \/ Idle /\ \E u \in UserIds, id \in 1..ScopeIds : Serve(leave_group(u, id))
    \/ Respond

SpecScope == InitScope /\ [][NextScope]_vars

(***************************************************************************)
(* C16.  Not found before forbidden.                                       *)
(***************************************************************************)
MissingFields == "Missing required fields."
GroupRoutes == {"view_group", "share_note_to_group", "leave_group"}

\* The answer r is to a request whose identifier names no row.  The note of a
\* share request is looked up once the group let the user through.
TargetMissing(r, subject_routes, group_routes) ==
    \/ r.route \in subject_routes /\ r.arg # 0 /\ r.arg \notin Ids(subjects)
    \/ r.route \in NoteRoutes /\ r.arg \notin Ids(notes)
    \/ r.route = "delete_exam" /\ r.arg \notin Ids(exams)
    \/ r.route \in group_routes /\ r.arg \notin Ids(groups)
    \/ /\ r.route = "share_note_to_group"
       /\ r.arg \in Ids(groups) /\ IsMember(r.user, r.arg)
       /\ r.arg2 \notin Ids(notes)

\* The answer r is to a request whose identifier names a row the user may not
\* access: a subject, note or exam date of another user, a group the user is
\* neither a member nor the creator of.
TargetDenied(r, subject_routes, group_routes) ==
    \/ /\ r.route \in subject_routes
       /\ r.arg \in Ids(subjects) /\ Row(subjects, r.arg).user_id # r.user
    \/ /\ r.route \in NoteRoutes
       /\ r.arg \in Ids(notes) /\ NoteOwner(Row(notes, r.arg)) # r.user
    \/ /\ r.route = "delete_exam"
       /\ r.arg \in Ids(exams) /\ Row(exams, r.arg).user_id # r.user
    \/ /\ r.route \in group_routes
       /\ r.arg \in Ids(groups) /\ ~MemberOrCreator(r.user, r.arg)
    \/ /\ r.route = "share_note_to_group"
       /\ r.arg \in Ids(groups) /\ IsMember(r.user, r.arg)
       /\ r.arg2 \in Ids(notes) /\ NoteOwner(Row(notes, r.arg2)) # r.user

Writes(request) == ENABLED (request /\ dbvars' # dbvars)

\* The handlers that catch the exception of their commit, with the answer of
\* their except branch: the form again (200) or a redirect (302).
ExceptBranch ==
    [create_subject |-> [status |-> 200, flash |->
         "An error occurred while creating the subject. Please try again."],
     edit_subject |-> [status |-> 200, flash |->
         "An error occurred while updating the subject. Please try again."],
     delete_subject |-> [status |-> 302, flash |->
         "An error occurred while deleting the subject. Please try again."],
     create_note |-> [status |-> 200, flash |->
         "An error occurred while creating the note. Please try again."],
     edit_note |-> [status |-> 200, flash |->
         "An error occurred while updating the note. Please try again."],
     delete_note |-> [status |-> 302, flash |->
         "An error occurred while deleting the note. Please try again."],
     add_exam |-> [status |-> 302, flash |-> "Error adding exam date."]]

\* errorhandler(500): db.session.rollback(), then the error page.
internal_error(route, u, arg) == Serve(Answer(route, u, arg, 500, "", ""))

FailText == "Linear equations and measurements"

\* The view function of a route on the request of user u that names id; text
\* is the exam date of the add_exam form.
Dispatch(route, u, id, text) ==
    CASE route = "create_subject" -> Serve(create_subject(u, "POST", "History"))
      [] route = "edit_subject" -> Serve(edit_subject(u, id, "POST", "Physics"))
      [] route = "delete_subject" -> Serve(delete_subject(u, id))
      [] route = "create_note" -> Serve(create_note(u, id, "POST", "Algebra", FailText))
      [] route = "save_generated_note" ->
             Serve(save_generated_note(u, id, "Algebra", FailText))
      [] route = "edit_note" -> Serve(edit_note(u, id, "POST", "Chapter 6", FailText))
      [] route = "delete_note" -> Serve(delete_note(u, id))
      [] route = "toggle_pin_note" -> Serve(toggle_pin_note(u, id))
      [] route = "update_progress" -> Serve(update_progress(u, id, "mastered"))
      [] route = "update_note_color" -> Serve(update_note_color(u, id, "#ffe066"))
      [] route = "add_exam" -> ServeExam(add_exam(u, "Math", text))
      [] route = "delete_exam" -> ServeExam(delete_exam(u, id))
      [] route = "join_group" -> Serve(join_group(u, "AAAA1111"))
      [] route = "share_note_to_group" -> Serve(share_note_to_group(u, id, u))
      [] route = "leave_group" -> Serve(leave_group(u, id))

\* A connection in autocommit mode: the statements of the handler are stored
\* although its commit fails.
Transact_autocommit(ok, route, u, id, text) == Dispatch(route, u, id, text)

\* A request with the outcome ok of its commit.  A commit that raises is
\* answered by the except branch of the handler, or by the 500 handler when
\* the handler has none; the session is rolled back either way (add_exam
\* leaves that to the end of the request).
Transact(ok, route, u, id, text) ==
    IF ok \/ ~Writes(Dispatch(route, u, id, text)) THEN Dispatch(route, u, id, text)
    ELSE IF route \in DOMAIN ExceptBranch
    THEN Serve(Answer(route, u, id, ExceptBranch[route].status, ExceptBranch[route].flash,
                      ""))
    ELSE internal_error(route, u, id)

\* The answer goes out and the database stops taking commits: a behaviour
\* is one request served by a working database, then requests whose commits
\* fail.
RespondAndDrop ==
    /\ respond
    /\ commit_ok' = FALSE
    /\ UNCHANGED <<sessions, fk_enforced, aivars, cg>>

\* Requests name the identifiers 1..FailIds.  User 1 owns a subject with a
\* note, an exam date and a group; user 2 owns nothing.
FailIds == 2
InitFail ==
    /\ users = SeedUsers
    /\ sessions = UserIds
    /\ subjects = {NewSubject(1, "Math", 1)}
    /\ notes = {NewNote(1, "Chapter 5", FailText, 1)}
    /\ groups = {NewGroup(1, "Study", "AAAA1111", 1)}
    /\ members = {Membership(1, 1)}
    /\ shared = {}
    /\ fk_enforced = FALSE
    /\ form = NoForm
    /\ resp = NoResp
    /\ ai_in = NoCall
    /\ ai_out = NoResult
    /\ cg = NoRequests
    /\ exams = {NewExam(1, "Math", 36, 1)}
    /\ notifications = {}
    /\ commit_ok \in BOOLEAN

FailDates == {"2026-01-01T00:00", "tomorrow"}

NextFail ==
    \/ Idle /\ \E u \in UserIds :
          NextId(subjects) <= FailIds /\ Transact(commit_ok, "create_subject", u, 0, "")
    \/ Idle /\ \E u \in UserIds, id \in 1..FailIds :
          Transact(commit_ok, "edit_subject", u, id, "")
    \/ Idle /\ \E u \in UserIds, id \in 1..FailIds :
          Transact(commit_ok, "delete_subject", u, id, "")
    \/ Idle /\ \E u \in UserIds, id \in 1..FailIds :
          NextId(notes) <= FailIds /\ Transact(commit_ok, "create_note", u, id, "")
    \/ Idle /\ \E u \in UserIds, id \in 1..FailIds :
          NextId(notes) <= FailIds /\ Transact(commit_ok, "save_generated_note", u, id, "")
    \/ Idle /\ \E u \in UserIds, id \in 1..FailIds :
          Transact(commit_ok, "edit_note", u, id, "")
    \/ Idle /\ \E u \in UserIds, id \in 1..FailIds :
          Transact(commit_ok, "delete_note", u, id, "")
    \/ Idle /\ \E u \in UserIds, id \in 1..FailIds :
          Transact(commit_ok, "toggle_pin_note", u, id, "")
    \/ Idle /\ \E u \in UserIds, id \in 1..FailIds :
          Transact(commit_ok, "update_progress", u, id, "")
    \/ Idle /\ \E u \in UserIds, id \in 1..FailIds :
          Transact(commit_ok, "update_note_color", u, id, "")
    \/ Idle /\ \E u \in UserIds, text \in FailDates :
          NextId(exams) <= FailIds /\ Transact(commit_ok, "add_exam", u, 0, text)
    \/ Idle /\ \E u \in UserIds, id \in 1..FailIds :
          Transact(commit_ok, "delete_exam", u, id, "")
    \/ Idle /\ \E u \in UserIds : Transact(commit_ok, "join_group", u, 1, "")
    \/ Idle /\ \E u \in UserIds, id \in 1..FailIds :
          shared = {} /\ Transact(commit_ok, "share_note_to_group", u, id, "")
    \/ Idle /\ \E u \in UserIds, id \in 1..FailIds :
          Transact(commit_ok, "leave_group", u, id, "")
    \/ RespondAndDrop

SpecFail == InitFail /\ [][NextFail]_vars

\* The routes of this scenario.
FailRoutes ==
    {"create_subject", "edit_subject", "delete_subject", "create_note",
     "save_generated_note", "edit_note", "delete_note", "toggle_pin_note",
     "update_progress", "update_note_color", "add_exam", "delete_exam", "join_group",
     "share_note_to_group", "leave_group"}

\* The answer reports the failure: a notice of an except branch, or the page
\* of the 500 handler.
Reported(r) ==
    \/ r.status = 500
    \/ r.flash \in {ExceptBranch[route].flash : route \in DOMAIN ExceptBranch}

\* The step is what some request does when its commit is taken.
Working ==
    \E route \in FailRoutes, u \in UserIds, id \in 0..FailIds, text \in FailDates \cup {""} :
        Dispatch(route, u, id, text)

\* C17: while the database refuses commits no request changes a table, and
\* every request is answered: with what a working database answers where
\* the request has nothing to write, and otherwise with the notice of the
\* handler's except branch or with the page of the 500 handler.
C17_FailedWriteRolledBack ==
    [][(Idle /\ ~commit_ok /\ resp' # NoResp)
          => /\ UNCHANGED dbvars
             /\ Reported(resp') \/ Working
             /\ Reported(resp') => resp'.route \in FailRoutes /\ resp'.status \in {200, 302, 500}]_vars

\* A request of a handler without an except branch met a failing commit and
\* was answered with the 500 page; the tables hold what they held at first
\* or one write more.
C17_Witness ==
    /\ ~commit_ok
    /\ resp.status = 500
    /\ resp.route = "delete_exam"
    /\ \E e \in exams : e.id = resp.arg /\ e.user_id = resp.user

\* The except branch of add_exam answered a commit that failed.
C17_WitnessCaught ==
    /\ ~commit_ok
    /\ resp.route = "add_exam"
    /\ resp.flash = "Error adding exam date."

(***************************************************************************)
(* C18.  Submissions that fail validation.  The forms of the subject and   *)
(* note routes are kept in form, as the registration form is.              *)
(***************************************************************************)
FormRows == 2
LongName == "Looooooooooooooooooooooooooooooooooooooooooooooooooooooooooooooooooooooooooooooooooooooooooooooooooog"
LongTitle == "Tiiiiiiiiiiiiiiiiiiiiiiiiiiiiiiiiiiiiiiiiiiiiiiiiiiiiiiiiiiiiiiiiiiiiiiiiiiiiiiiiiiiiiiiiiiiiiiiiiiiiiiiiiiiiiiiiiiiiiiiiiiiiiiiiiiiiiiiiiiiiiiiiiiiiiiiiiiiiiiiiiiiiiiiiiiiiiiiiiiiiiiiiiiiiiiiiiiiiiiie"

FormNames == {"History", "M", " ", LongName}
FormTitles == {"Algebra", "T", "", LongTitle}
FormContents == {"Linear equations and measurements", "too short", ""}
SubjectForms == [method : Methods, name : FormNames]
NoteForms == [method : Methods, title : FormTitles, content : FormContents]
SignupForms ==
    [method : {"POST"}, username : {"carol", "alice", "al", ""},
     email : { <<"c", "@", "x">>, <<"A", "@", "X">>, <<"c", "x">> },
     password : {"pass", "pw"}, confirm : {"pass", "pw"}]

InitForms ==
    /\ users = SeedUsers
    /\ sessions = {1}
    /\ subjects = {NewSubject(1, "Math", 1)}
    /\ notes = {NewNote(1, "Chapter 5", "Linear equations and measurements", 1)}
    /\ groups = {}
    /\ members = {}
    /\ shared = {}
    /\ fk_enforced = FALSE
    /\ form = NoForm
    /\ resp = NoResp
    /\ ai_in = NoCall
    /\ ai_out = NoResult
    /\ cg = NoRequests
    /\ exams = {}
    /\ notifications = {}
    /\ commit_ok = TRUE

\* A handler of a subject or note form, with the form it was sent.
ServeForm(handler, f) ==
    handler /\ form' = f /\ UNCHANGED <<sessions, fk_enforced, aivars, xvars>>

NextForms ==
    \/ Idle /\ \E f \in SignupForms :
          NextId(users) <= Cardinality(SeedUsers) + 1
             /\ ServeAuth(register(0, f, "s1"))
    \/ Idle /\ \E f \in SubjectForms :
          NextId(subjects) <= FormRows
             /\ ServeForm(create_subject(1, f.method, f.name), f)
    \/ Idle /\ \E id \in 1..FormRows, f \in SubjectForms :
          ServeForm(edit_subject(1, id, f.method, f.name), f)
    \/ Idle /\ \E id \in 1..FormRows, f \in NoteForms :
          NextId(notes) <= FormRows
             /\ ServeForm(create_note(1, id, f.method, f.title, f.content), f)
    \/ Idle /\ \E id \in 1..FormRows, f \in NoteForms :
          ServeForm(edit_note(1, id, f.method, f.title, f.content), f)
    \/ Respond

SpecForms == InitForms /\ [][NextForms]_vars

\* A text field is missing, or its length is out of range.
FieldFails(text, min, max) == text \in BlankStrings \/ Len(text) < min \/ Len(text) > max

\* The submission to the route fails validation: a required field is
\* missing, a length is out of range, the username or the address is taken,
\* or the two passwords differ.
FailsValidation(route, f) ==
    CASE route = "register" ->
             \/ FieldFails(f.username, 3, 20)
             \/ f.password = "" \/ Len(f.password) < 4
             \/ f.confirm # f.password
             \/ Taken(f)
      [] route \in {"create_subject", "edit_subject"} -> FieldFails(f.name, 2, 100)
      [] route \in {"create_note", "edit_note"} ->
             \/ FieldFails(f.title, 2, 200)
             \/ f.content \in BlankStrings \/ Len(f.content) < 10
      [] OTHER -> FALSE

NewNotification(id, user_id, title) == [id |-> id, user_id |-> user_id, title |-> title]

\* user.subjects, user.exam_dates, user.notifications, and the notes of the
\* subjects: what the cascades of relationships delete with the user.
SubjectsOfUser(user_id) == {s \in subjects : s.user_id = user_id}
NotesOfUser(user_id) == {n \in notes : \E s \in SubjectsOfUser(user_id) : n.subject_id = s.id}
ExamsOfUser(user_id) == {e \in exams : e.user_id = user_id}
NotificationsOfUser(user_id) == {n \in notifications : n.user_id = user_id}

\* The rows no cascade reaches although they reference the user or a note of
\* the user: study_groups.created_by, group_members.user_id,
\* shared_notes.shared_by and shared_notes.note_id.  An engine that enforces
\* foreign keys refuses the commit while there is one.
UserStillReferenced(user_id) ==
    \/ \E g \in groups : g.created_by = user_id
    \/ \E m \in members : m.user_id = user_id
    \/ \E x \in shared : x.shared_by = user_id \/ x.note_id \in Ids(NotesOfUser(user_id))

\* Deleting the user with the cascade of User.subjects but without the one
\* of Subject.notes.
delete_user_keep_notes(user_id) ==
    /\ user_id \in Ids(users)
    /\ ~(fk_enforced /\ UserStillReferenced(user_id))
    /\ users' = users \ {Row(users, user_id)}
    /\ sessions' = sessions \ {user_id}
    /\ subjects' = subjects \ SubjectsOfUser(user_id)
    /\ exams' = exams \ ExamsOfUser(user_id)
    /\ notifications' = notifications \ NotificationsOfUser(user_id)
    /\ UNCHANGED <<notes, groups, members, shared>>

\* db.session.delete(user); db.session.commit().  load_user finds no row for
\* the session of a deleted user.
delete_user(user_id) ==
    /\ user_id \in Ids(users)
    /\ ~(fk_enforced /\ UserStillReferenced(user_id))
    /\ users' = users \ {Row(users, user_id)}
    /\ sessions' = sessions \ {user_id}
    /\ subjects' = subjects \ SubjectsOfUser(user_id)
    /\ notes' = notes \ NotesOfUser(user_id)
    /\ exams' = exams \ ExamsOfUser(user_id)
    /\ notifications' = notifications \ NotificationsOfUser(user_id)
    /\ UNCHANGED <<groups, members, shared>>

\* The databases the deletions start from: CascadeRows subjects and as many
\* notes, each owned by a user or absent; an exam date and a notification
\* for some of the users; a group that user 1 created, or none.
CascadeRows == 2
CascadeOwners == [1..CascadeRows -> UserIds \cup {0}]
CascadeSubjects(owner) ==
    {NewSubject(k, "Math", owner[k]) : k \in {i \in 1..CascadeRows : owner[i] # 0}}
CascadeNotes(owner, place) ==
    {NewNote(k, "Chapter 5", "Linear equations and measurements", place[k]) :
        k \in {i \in 1..CascadeRows : owner[place[i]] # 0}}

InitCascade ==
    /\ users = SeedUsers
    /\ sessions = UserIds
    /\ \E owner \in CascadeOwners, place \in [1..CascadeRows -> 1..CascadeRows] :
          /\ subjects = CascadeSubjects(owner)
          /\ notes = CascadeNotes(owner, place)
    /\ \E examined \in SUBSET UserIds : exams = {NewExam(u, "Math", 36, u) : u \in examined}
    /\ \E notified \in SUBSET UserIds :
          notifications = {NewNotification(u, u, "Exam soon") : u \in notified}
    /\ \E grouped \in BOOLEAN :
          /\ groups = IF grouped THEN {NewGroup(1, "Study", "AAAA1111", 1)} ELSE {}
          /\ members = IF grouped THEN {Membership(1, 1)} ELSE {}
    /\ shared = {}
    /\ fk_enforced \in BOOLEAN
    /\ form = NoForm
    /\ resp = NoResp
    /\ ai_in = NoCall
    /\ ai_out = NoResult
    /\ cg = NoRequests
    /\ commit_ok = TRUE

NextCascade ==
    \E user_id \in UserIds :
        delete_user(user_id) /\ UNCHANGED <<fk_enforced, form, resp, aivars, cg, commit_ok>>

SpecCascade == InitCascade /\ [][NextCascade]_vars

\* C19: a step that deletes a user deletes with it exactly the subjects of
\* the user, the notes of those subjects, the exam dates and the
\* notifications of the user; the subjects, notes, exam dates and
\* notifications of every other user, and every other user, stay as they
\* were.
C19_DeleteUserCascade ==
    [][\A x \in users \ users' :
          /\ users' = users \ {x}
          /\ subjects' = {s \in subjects : s.user_id # x.id}
          /\ notes' = {n \in notes : \A s \in subjects : s.id = n.subject_id => s.user_id # x.id}
          /\ exams' = {e \in exams : e.user_id # x.id}
          /\ notifications' = {n \in notifications : n.user_id # x.id}]_vars

\* User 1 has been deleted by an engine that enforces no foreign keys: user 2
\* keeps a subject with a note, an exam date and a notification, and the
\* group that user 1 created is left behind.
C19_Witness ==
    /\ Ids(users) = {2}
    /\ \E s \in subjects, n \in notes : s.user_id = 2 /\ n.subject_id = s.id
    /\ \E e \in exams : e.user_id = 2
    /\ \E n \in notifications : n.user_id = 2
    /\ ~fk_enforced
    /\ \E g \in groups : g.created_by = 1

(***************************************************************************)
(* C20.  ExamDate.days_remaining and ExamDate.is_urgent, as functions of   *)
(* the exam row and of the reading of the clock.                           *)
(***************************************************************************)
HoursPerDay == 24
UrgentDays == 7

\* timedelta.days: a timedelta is normalised so that its seconds are not
\* negative, which rounds its days down, also below zero.
timedelta_days(delta) == delta \div HoursPerDay

MaxInt(a, b) == IF a >= b THEN a ELSE b

\* the property without max(0, ...)
days_remaining_unclamped(exam, utcnow) == timedelta_days(exam.exam_date - utcnow)

\* utcnow is what datetime.utcnow() returns when the property is read.
days_remaining(exam, utcnow) == MaxInt(0, timedelta_days(exam.exam_date - utcnow))

is_urgent(exam, utcnow) == days_remaining(exam, utcnow) <= UrgentDays

\* The clock runs over MaxHour hours; the exam is at its start, in its
\* middle or at its end.
MaxHour == 216
ClockHours == 0..MaxHour
ExamHours == {0, MaxHour \div 2, MaxHour}

InitClock ==
    /\ users = SeedUsers
    /\ sessions = UserIds
    /\ subjects = {}
    /\ notes = {}
    /\ groups = {}
    /\ members = {}
    /\ shared = {}
    /\ fk_enforced = FALSE
    /\ form = NoForm
    /\ resp = NoResp
    /\ ai_in = NoCall
    /\ ai_out = NoResult
    /\ cg = NoRequests
    /\ \E hour \in ExamHours : exams = {NewExam(1, "Math", hour, 1)}
    /\ notifications = {}
    /\ commit_ok = TRUE

\* The two properties of an exam row are read at some hour: arg is the row,
\* arg2 the hour, val what the properties returned.
ReadExamDate ==
    /\ Idle
    /\ \E exam \in exams, utcnow \in ClockHours :
          resp' = RespOn("exam_date", exam.user_id, exam.id, utcnow, 200, "",
                         [days_remaining |-> days_remaining(exam, utcnow),
                          is_urgent |-> is_urgent(exam, utcnow)])
    /\ UNCHANGED <<dbvars, sessions, fk_enforced, form, aivars, cg, commit_ok>>

NextClock == ReadExamDate \/ Respond

SpecClock == InitClock /\ [][NextClock]_vars

\* C20: days_remaining is not negative; for an exam that lies ahead it is
\* the number of whole days that fit between now and the exam, for an exam
\* that has passed it is 0; is_urgent is true exactly when it is at most 7.
C20_DaysRemaining ==
    resp.route = "exam_date" =>
        LET exam == Row(exams, resp.arg)
            ahead == exam.exam_date - resp.arg2
            days == resp.val.days_remaining
        IN /\ days >= 0
           /\ ahead > 0 => days * 24 <= ahead /\ ahead < (days + 1) * 24
           /\ ahead <= 0 => days = 0
           /\ resp.val.is_urgent <=> days <= 7

\* Seven days and twenty-three hours before the exam: seven days remain and
\* the exam is urgent.
C20_Witness ==
    /\ resp.route = "exam_date"
    /\ Row(exams, resp.arg).exam_date - resp.arg2 = 7 * 24 + 23
    /\ resp.val.days_remaining = 7
    /\ resp.val.is_urgent

\* An hour after the exam no day remains.
C20_WitnessPast ==
    /\ resp.route = "exam_date"
    /\ Row(exams, resp.arg).exam_date - resp.arg2 = -1
    /\ resp.val.days_remaining = 0
    /\ resp.val.is_urgent

(***************************************************************************)
(* C21.  Calls of call_ai one after the other.  Each call meets an         *)
(* environment of its own; earlier keeps the models the call before it     *)
(* contacted.                                                              *)
(***************************************************************************)
CallKeys == {"", "sk-or-v1"}
CallOutcomes == {Failure("timeout"), Content("12345"), Content("123456")}
InitCalls ==
    /\ users = SeedUsers
    /\ sessions = UserIds
    /\ subjects = {}
    /\ notes = {}
    /\ groups = {}
    /\ members = {}
    /\ shared = {}
    /\ fk_enforced = FALSE
    /\ form = NoForm
    /\ resp = NoResp
    /\ ai_in = [key |-> "", outcomes |-> <<>>, earlier |-> <<>>]
    /\ ai_out = NoResult
    /\ cg = NoRequests
    /\ exams = {}
    /\ notifications = {}
    /\ commit_ok = TRUE

\* The next call of call_ai, under the key and the outcomes it meets.
CallAgain ==
    /\ \E key \in CallKeys, outcomes \in [1..Len(FREE_MODELS) -> CallOutcomes] :
          /\ ai_in' = [key |-> key, outcomes |-> outcomes, earlier |-> ai_out.contacted]
          /\ ai_out' = call_ai(key, outcomes)
    /\ UNCHANGED <<dbvars, sessions, fk_enforced, form, resp, xvars>>

NextCalls == CallAgain

SpecCalls == InitCalls /\ [][NextCalls]_vars

\* How many models a call under this key and these outcomes has to contact:
\* none without a key, else all up to the first whose answer is accepted.
Attempts(key, outcomes) ==
    IF key = "" \/ key = PlaceholderKey THEN 0
    ELSE IF Accepting(outcomes) = {} THEN Len(FREE_MODELS)
    ELSE FirstAccepting(outcomes)

\* C21: whatever the call before it went through, a call of call_ai contacts
\* the first models of the list, in list order and each once, as many as its
\* own key and outcomes determine, and never more than five.
C21_EveryCallRestarts ==
    [][ai_in' # ai_in \/ ai_out' # ai_out
          => /\ Len(ai_out'.contacted) <= 5
             /\ Len(ai_out'.contacted) = Attempts(ai_in'.key, ai_in'.outcomes)
             /\ \A i \in 1..Len(ai_out'.contacted) : ai_out'.contacted[i] = FREE_MODELS[i]
             /\ \A i, j \in 1..Len(ai_out'.contacted) :
                   ai_out'.contacted[i] = ai_out'.contacted[j] => i = j]_vars

\* The call before this one found all five models failing; this call was
\* answered by the first model and contacted no other.
C21_Witness ==
    /\ Len(ai_in.earlier) = Len(FREE_MODELS)
    /\ ai_in.key = "sk-or-v1"
    /\ ai_in.outcomes[1] = Content("123456")
    /\ ai_out.contacted = <<FREE_MODELS[1]>>
    /\ ai_out.text = "123456"

(***************************************************************************)
(* C22.  The handlers that call the gateway, under environments in which   *)
(* it fails or answers with text of every kind.  ai_in keeps the           *)
(* environment the request met.                                            *)
(***************************************************************************)
PlainText == "Sure, here is a summary."
GatewayTexts == {PlainText, BrokenArray, BrokenObject, CardsJson, MindmapJson}
GatewayEnvs ==
    { [key |-> k, outcomes |-> AllTimeout] : k \in {"", PlaceholderKey, "sk-or-v1"} }
    \cup { [key |-> "sk-or-v1",
            outcomes |-> [i \in 1..Len(FREE_MODELS) |-> Failure("malformed")]] }
    \cup { [key |-> "sk-or-v1", outcomes |-> [AllTimeout EXCEPT ![2] = Content(t)]] :
              t \in GatewayTexts }

ServeAi(handler, env) ==
    handler /\ ai_in' = env /\ UNCHANGED <<sessions, fk_enforced, form, ai_out, xvars>>

NextGateway ==
    \/ Idle /\ \E u \in UserIds, id \in 1..FailIds, env \in GatewayEnvs :
          ServeAi(ai_summarize(u, id, env), env)
    \/ Idle /\ \E u \in UserIds, id \in 1..FailIds, env \in GatewayEnvs :
          ServeAi(ai_quiz(u, id, env), env)
    \/ Idle /\ \E u \in UserIds, id \in 1..FailIds, env \in GatewayEnvs :
          ServeAi(ai_explain(u, id, env), env)
    \/ Idle /\ \E u \in UserIds, id \in 1..FailIds, env \in GatewayEnvs :
          ServeAi(ai_improve(u, id, env), env)
    \/ Idle /\ \E u \in UserIds, id \in 1..FailIds, q \in {"Why?", " "}, env \in GatewayEnvs :
          ServeAi(ai_chat(u, id, q, env), env)
    \/ Idle /\ \E u \in UserIds, id \in 1..FailIds, env \in GatewayEnvs :
          ServeAi(generate_flashcards(u, id, env), env)
    \/ Idle /\ \E u \in UserIds, id \in 1..FailIds, env \in GatewayEnvs :
          ServeAi(generate_mindmap(u, id, env), env)
    \/ Idle /\ \E u \in UserIds, env \in GatewayEnvs : ServeAi(ai_suggest_exams(u, env), env)
    \/ Respond

SpecGateway == InitFail /\ [][NextGateway]_vars

\* What the gateway yields under an environment: the string for a missing
\* key, the first answer of more than five characters, or the string for
\* no model available.
Yield(env) ==
    IF env.key \in {"", PlaceholderKey} THEN ApiKeyNotSet
    ELSE IF \E i \in ModelIndexes : Accepts(env.outcomes, i)
    THEN env.outcomes[FirstAccepting(env.outcomes)].content
    ELSE AllModelsUnavailable

TextRoutes == {"ai_summarize", "ai_quiz", "ai_explain", "ai_improve"}
\* The texts of this model in which an array, or an object, can be parsed.
HoldsArray(text) == text = CardsJson
HoldsObject(text) == text \in {CardsJson, MindmapJson}
NoSubjects == "No subjects found. Add some subjects and notes first!"

\* C22: a request to an AI route that passes the lookup and the owner check
\* is answered with status 200 and changes no table, whatever the gateway
\* yields; a text route answers with what the gateway yielded, and the
\* flashcard, mind map and suggestion routes answer with their fixed error
\* when the yield holds no array, or object, that can be parsed.
C22_GatewayFailuresAbsorbed ==
    [][(Idle /\ resp' # NoResp /\ resp'.status \notin {403, 404})
          => LET yield == Yield(ai_in')
                 route == resp'.route
             IN /\ UNCHANGED dbvars
                /\ resp'.status = 200
                /\ route \in TextRoutes => resp'.val = yield
                /\ route = "ai_chat" => resp'.val \in {yield, "Please ask a question."}
                /\ (route = "generate_flashcards" /\ ~HoldsArray(yield))
                      => resp'.val = "Could not generate flashcards. Try again."
                /\ (route = "generate_mindmap" /\ ~HoldsObject(yield))
                      => resp'.val = "Could not generate mind map. Please try again."
                /\ (route = "ai_suggest_exams" /\ ~HoldsArray(yield))
                      => resp'.val \in {"Could not generate suggestions. Please try again.",
                                        NoSubjects}]_vars

\* The owner of a note asked for a mind map and the model answered with
\* braces around something that is no JSON: the fixed error came back.
C22_Witness ==
    /\ resp.route = "generate_mindmap"
    /\ resp.status = 200
    /\ ai_in.key = "sk-or-v1"
    /\ ai_in.outcomes[2] = Content(BrokenObject)
    /\ resp.val = "Could not generate mind map. Please try again."

(***************************************************************************)
(* C23.  share_note_to_group one statement at a time, for requests that    *)
(* overlap.  shared_notes has no unique constraint on (note_id, group_id). *)
(***************************************************************************)
\* get_or_404(group_id), the membership test, get_or_404(note_id) and the
\* owner test.
sh_begin(w, u, group_id, note_id) ==
    /\ cg[w].pc = "idle"
    /\ u \in sessions
    /\ cg' = [cg EXCEPT ![w] =
                 [pc |-> IF group_id \in Ids(groups) /\ IsMember(u, group_id)
                            /\ note_id \in Ids(notes) /\ NoteOwner(Row(notes, note_id)) = u
                         THEN "check" ELSE "done",
                  user |-> u, group |-> group_id, note |-> note_id, flash |-> "",
                  status |-> IF group_id \notin Ids(groups) THEN 404
                             ELSE IF ~IsMember(u, group_id) THEN 403
                             ELSE IF note_id \notin Ids(notes) THEN 404
                             ELSE IF NoteOwner(Row(notes, note_id)) # u THEN 403
                             ELSE 0]]
    /\ UNCHANGED dbvars

\* The existence query finding nothing, whatever is stored.
sh_check_blind(w) ==
    /\ cg[w].pc = "check"
    /\ cg' = [cg EXCEPT ![w].pc = "insert"]
    /\ UNCHANGED dbvars

\* existing = SharedNote.query.filter_by(note_id=..., group_id=...).first();
\* if existing: flash, redirect
sh_check(w) ==
    /\ cg[w].pc = "check"
    /\ cg' = [cg EXCEPT ![w] =
                 IF \E x \in shared : x.note_id = cg[w].note /\ x.group_id = cg[w].group
                 THEN [cg[w] EXCEPT !.pc = "done", !.status = 302, !.flash = AlreadyShared]
                 ELSE [cg[w] EXCEPT !.pc = "insert"]]
    /\ UNCHANGED dbvars

\* db.session.add(shared); db.session.commit(): no constraint of the table
\* looks at the rows that are there.
sh_insert(w) ==
    /\ cg[w].pc = "insert"
    /\ shared' = shared \cup
          {NewSharedNote(NextId(shared), cg[w].note, cg[w].group, cg[w].user)}
    /\ cg' = [cg EXCEPT ![w].pc = "done", ![w].status = 302,
                        ![w].flash = "Note shared with the group!"]
    /\ UNCHANGED <<users, subjects, notes, groups, members, exams, notifications>>

NextShare ==
    \/ \E w \in Workers, u \in UserIds, group_id \in 1..MaxGroups, note_id \in 1..MaxNotes :
          ServeStep(sh_begin(w, u, group_id, note_id))
    \/ \E w \in Workers : ServeStep(sh_check(w))
    \/ \E w \in Workers : sh_insert(w) /\ UNCHANGED <<sessions, fk_enforced, form, resp, aivars, commit_ok>>
    \/ \E w \in Workers : ServeStep(cg_respond(w))

SpecShare == InitScope /\ [][NextShare]_vars

RowsOfPair(note_id, group_id) == {x \in shared : x.note_id = note_id /\ x.group_id = group_id}

\* C23 as stated: also with overlapping requests a note has at most one row
\* in a group.
C23_AsStated ==
    \A x, y \in shared : (x.note_id = y.note_id /\ x.group_id = y.group_id) => x = y

\* C23, amended: a request whose existence query runs when the pair has a row
\* inserts nothing and answers with the notice, and only a request that has
\* passed its query inserts; so a pair has at most as many rows as there are
\* requests in flight together.
C23_CheckedBeforeInsert ==
    /\ [][\A w \in Workers :
            /\ (cg[w].pc = "check" /\ cg'[w].pc # "check"
                   /\ RowsOfPair(cg[w].note, cg[w].group) # {})
                  => cg'[w].pc = "done" /\ cg'[w].flash = AlreadyShared /\ shared' = shared
            /\ (cg[w].pc # "insert" /\ cg'[w] # cg[w]) => shared' = shared]_vars
    /\ [](\A x \in shared : Cardinality(RowsOfPair(x.note_id, x.group_id)) <= MaxWorkers)

\* Two requests of user 1 for note 1 and group 1 have both inserted: the pair
\* has two rows, and a third request has been answered with the notice.
C23_Witness ==
    /\ Cardinality(RowsOfPair(1, 1)) = 2
    /\ \E w \in Workers : cg[w].pc = "done" /\ cg[w].flash = AlreadyShared
                             /\ cg[w].note = 1 /\ cg[w].group = 1

(***************************************************************************)
(* C24.  Deleting a note that is shared.  Each user owns a subject with a  *)
(* note and a group; SharedNote.note is a plain many-to-one relationship,  *)
(* so the session removes nothing from shared_notes when a note goes.      *)
(***************************************************************************)
InitOrphan ==
    /\ users = SeedUsers
    /\ sessions = UserIds
    /\ subjects = {NewSubject(u, "Math", u) : u \in UserIds}
    /\ notes = {NewNote(u, "Chapter 5", "Linear equations and measurements", u) :
                   u \in UserIds}
    /\ groups = {NewGroup(1, "Study", "AAAA1111", 1), NewGroup(2, "Study", "BBBB2222", 2)}
    /\ members = {Membership(u, u) : u \in UserIds}
    /\ shared = {}
    /\ fk_enforced \in BOOLEAN
    /\ form = NoForm
    /\ resp = NoResp
    /\ ai_in = NoCall
    /\ ai_out = NoResult
    /\ cg = NoRequests
    /\ exams = {}
    /\ notifications = {}
    /\ commit_ok = TRUE

\* Subject, note and group u are the ones of user u.
NextOrphan ==
    \/ Idle /\ \E u \in UserIds, gid \in UserIds, nid \in UserIds :
          NextId(shared) <= MaxShared /\ Serve(share_note_to_group(u, gid, nid))
    \/ Idle /\ \E u \in UserIds, gid \in UserIds : Serve(leave_group(u, gid))
    \/ Idle /\ \E u \in UserIds, nid \in UserIds : Serve(delete_note(u, nid))
    \/ Idle /\ \E u \in UserIds, sid \in UserIds : Serve(delete_subject(u, sid))
    \/ Idle /\ \E u \in UserIds, sid \in UserIds :
          NextId(notes) <= MaxUsers
             /\ Serve(create_note(u, sid, "POST", "Chapter 6", "Quadratic equations by factoring"))
    \/ Respond

SpecOrphan == InitOrphan /\ [][NextOrphan]_vars

NoteRefsHold == \A s \in shared : s.note_id \in Ids(notes)
GroupRefsHold == \A s \in shared : s.group_id \in Ids(groups)
SharedInto(note_id) == {s \in shared : s.note_id = note_id}

C24_WitnessRefused ==
    /\ fk_enforced /\ resp.route = "delete_note"
    /\ resp.flash = "An error occurred while deleting the note. Please try again."
    /\ shared # {} /\ NoteRefsHold

(***************************************************************************)
(* C25.  Who shares a note, and what becomes of the row.                   *)
(***************************************************************************)
SharerIsOwner(s) == s.note_id \in Ids(notes) => s.shared_by = NoteOwner(Row(notes, s.note_id))

NoteRows == 3

NextNotes ==
    \/ Idle /\ \E u \in UserIds, sid \in UserIds, f \in NoteForms :
          NextId(notes) <= NoteRows
             /\ ServeForm(create_note(u, sid, f.method, f.title, f.content), f)
    \/ Idle /\ \E u \in UserIds, nid \in 1..NoteRows, f \in NoteForms :
          ServeForm(edit_note(u, nid, f.method, f.title, f.content), f)
    \/ Idle /\ \E u \in UserIds, sid \in 0..MaxUsers, t \in FormTitles, c \in FormContents :
          NextId(notes) <= NoteRows
             /\ ServeForm(save_generated_note(u, sid, t, c),
                          [method |-> "POST", title |-> t, content |-> c])
    \/ Respond

SpecNotes == InitScope /\ [][NextNotes]_vars

\* C26 as stated: every persisted Note satisfies the constraints of NoteForm.
C26_AsStated == \A n \in notes : NoteFormValid(n.title, n.content)

\* The notes a request has written: the new ones and the changed ones.
Written == notes' \ notes

\* C26, amended: a note written by create_note or edit_note satisfies the
\* constraints of NoteForm; a note written by save_generated_note has a title
\* and a content that are stripped and not empty, of any length.
C26_NoteConstraints ==
    /\ [][\A n \in Written :
             /\ resp'.route \in {"create_note", "edit_note", "save_generated_note"}
             /\ resp'.route \in {"create_note", "edit_note"}
                   => NoteFormValid(n.title, n.content) /\ form'.method = "POST"
             /\ resp'.route = "save_generated_note"
                   => /\ n.title = Strip(form'.title) /\ n.title # ""
                      /\ n.content = Strip(form'.content) /\ n.content # ""]_vars
    /\ [](\A n \in notes : n.title # "" /\ n.content # "")

\* save_generated_note has stored a title of one character with a content
\* of nine.
C26_Witness ==
    /\ resp.route = "save_generated_note" /\ resp.status = 302
    /\ \E n \in notes : /\ Len(n.title) < TitleMin /\ Len(n.content) < ContentMin
                        /\ n.title = form.title /\ n.content = form.content

\* create_note has stored a note that satisfies the form.
C26_WitnessForm ==
    /\ resp.route = "create_note" /\ resp.status = 302
    /\ \E n \in notes : n.id = NoteRows /\ NoteFormValid(n.title, n.content)

(***************************************************************************)
(* C27.  register and the username change of settings one statement at a   *)
(* time, for requests that overlap.  users.username and users.email are    *)
(* unique=True.                                                            *)
(***************************************************************************)
RaceUsers == 3
RaceNames == {"carol", "bob"}
RaceEmails == { <<"c", "@", "x">>, <<"d", "@", "x">> }

\* register of an anonymous client up to form.validate_on_submit(), which runs
\* the queries of validate_username and validate_email.
us_begin_register(w, f) ==
    /\ cg[w].pc = "idle"
    /\ cg' = [cg EXCEPT ![w] =
                 [pc |-> IF ValidateOnSubmit(f.method, RegistrationFormValid(f))
                         THEN "commit" ELSE "done",
                  route |-> "register", user |-> 0, name |-> f.username,
                  email |-> Lower(f.email), password |-> f.password,
                  status |-> 200, flash |-> ""]]
    /\ UNCHANGED dbvars

\* settings up to the query for a user of that name; a GET, an empty name and
\* the user's own name change nothing.
us_begin_settings(w, u, method, username) ==
    /\ cg[w].pc = "idle"
    /\ u \in sessions /\ u \in Ids(users)
    /\ cg' = [cg EXCEPT ![w] =
                 [route |-> "settings", user |-> u, name |-> Strip(username),
                  email |-> <<>>, password |-> "",
                  pc |-> IF method = "POST" /\ Strip(username) # ""
                            /\ Strip(username) # Row(users, u).username
                            /\ validate_username(Strip(username))
                         THEN "commit" ELSE "done",
                  status |-> IF method = "POST" THEN 302 ELSE 200,
                  flash |-> IF method = "POST" /\ Strip(username) # ""
                               /\ Strip(username) # Row(users, u).username
                               /\ ~validate_username(Strip(username))
                            THEN "Username already taken." ELSE ""]]
    /\ UNCHANGED dbvars

\* The unique indexes of users refusing the row of the request of worker w.
IndexRefuses(w) ==
    \E x \in users : /\ x.id # cg[w].user
                     /\ \/ x.username = cg[w].name
                        \/ cg[w].route = "register" /\ x.email = cg[w].email

\* The row the commit of worker w writes.
CommittedUsers(w) ==
    IF cg[w].route = "register"
    THEN users \cup {NewUser(NextId(users), cg[w].name, cg[w].email, cg[w].password, "s1")}
    ELSE (users \ {Row(users, cg[w].user)})
            \cup {[Row(users, cg[w].user) EXCEPT !.username = cg[w].name]}

\* The commit on a table without unique indexes.
us_commit_unindexed(w) ==
    /\ cg[w].pc = "commit"
    /\ users' = CommittedUsers(w)
    /\ cg' = [cg EXCEPT ![w].pc = "done", ![w].status = 302,
                        ![w].flash = IF cg[w].route = "register" THEN AccountCreated
                                     ELSE "Username updated successfully!"]
    /\ UNCHANGED <<subjects, notes, groups, members, shared, exams, notifications>>

\* db.session.commit().  A refused commit raises: register catches it, rolls
\* back and renders the form with the error notice; settings catches nothing
\* and the 500 handler rolls back.
us_commit(w) ==
    /\ cg[w].pc = "commit"
    /\ IF IndexRefuses(w)
       THEN /\ cg' = [cg EXCEPT ![w].pc = "done",
                                ![w].status = IF cg[w].route = "register" THEN 200 ELSE 500,
                                ![w].flash = IF cg[w].route = "register"
                                             THEN "An error occurred during registration. Please try again."
                                             ELSE ""]
            /\ UNCHANGED dbvars
       ELSE /\ users' = CommittedUsers(w)
            /\ cg' = [cg EXCEPT ![w].pc = "done", ![w].status = 302,
                                ![w].flash = IF cg[w].route = "register" THEN AccountCreated
                                             ELSE "Username updated successfully!"]
            /\ UNCHANGED <<subjects, notes, groups, members, shared, exams, notifications>>

NextNames ==
    \/ \E w \in Workers, name \in RaceNames, email \in RaceEmails :
          ServeStep(us_begin_register(w, [method |-> "POST", username |-> name, email |-> email,
                                          password |-> "pass", confirm |-> "pass"]))
    \/ \E w \in Workers, u \in UserIds, name \in RaceNames :
          ServeStep(us_begin_settings(w, u, "POST", name))
    \/ \E w \in Workers :
          /\ cg[w].pc = "commit"
          /\ cg[w].route = "register" => NextId(users) <= RaceUsers
          /\ ServeStep(us_commit(w))
    \/ \E w \in Workers : ServeStep(cg_respond(w))

SpecNames == InitScope /\ [][NextNames]_vars

\* The request of worker w was refused by the commit, after its query had
\* found the name free.
RefusedAtCommit(w) ==
    /\ cg[w].pc = "done"
    /\ \/ cg[w].route = "settings" /\ cg[w].status = 500
       \/ cg[w].route = "register"
             /\ cg[w].flash = "An error occurred during registration. Please try again."

\* C27: no two users have the same username, whatever the interleaving of
\* register and settings requests; a request that reaches its commit when the
\* name has been taken in the meantime is refused and changes no user.
C27_UsernameUnique ==
    /\ [](\A x, y \in users : x.username = y.username => x = y)
    /\ [](\A x, y \in users : x.id = y.id => x = y)
    /\ [][\A w \in Workers :
            (cg[w].pc = "commit" /\ cg'[w].pc = "done"
                /\ \E x \in users : x.id # cg[w].user /\ x.username = cg[w].name)
               => users' = users /\ RefusedAtCommit(w)']_vars

\* Two requests passed the query for the free name carol; one has it and the
\* other was refused by its commit.
C27_Witness ==
    \E w \in Workers :
       /\ RefusedAtCommit(w) /\ cg[w].name = "carol"
       /\ \E x \in users : x.username = "carol" /\ x.id # cg[w].user
       /\ \A x \in users : x.email # cg[w].email

\* A username change was refused by its commit and answered with the 500 page;
\* the user keeps the old name.
C27_WitnessSettings ==
    \E w \in Workers :
       /\ RefusedAtCommit(w) /\ cg[w].route = "settings"
       /\ Row(users, cg[w].user).username # cg[w].name

(***************************************************************************)
(* C28.  The owner of a subject and the subject of a note are written once. *)
(***************************************************************************)
Editing == {"edit_subject", "edit_note", "toggle_pin_note", "update_progress",
            "update_note_color"}

\* C28: no request changes the user_id of a subject that stays or the
\* subject_id of a note that stays, and the five editing routes remove and
\* add no subject and no note.
C28_OwnerNeverChanges ==
    [][/\ \A s \in subjects, t \in subjects' : s.id = t.id => s.user_id = t.user_id
       /\ \A n \in notes, m \in notes' : n.id = m.id => n.subject_id = m.subject_id
       /\ (resp = NoResp /\ resp'.route \in Editing)
             => Ids(subjects') = Ids(subjects) /\ Ids(notes') = Ids(notes)]_vars

\* A subject with a note has been renamed by its owner.
C28_Witness ==
    /\ resp.route = "edit_subject" /\ resp.status = 302
    /\ \E s \in subjects : /\ s.id = resp.arg /\ s.user_id = resp.user
                           /\ s.name = "History"
                           /\ \E n \in notes : n.subject_id = s.id /\ n.is_pinned

(***************************************************************************)
(* C29.  call_ai without a key.                                            *)
(***************************************************************************)
\* C29: with the key unset, empty or the placeholder, call_ai returns the
\* fixed text from line 29 and contacts no model; a model is contacted only
\* under a configured key, and then the first model always is.
C29_NoKeyNoRequest ==
    Called =>
        /\ ~KeySet => /\ ai_out.text = ApiKeyNotSet
                      /\ ai_out.contacted = <<>>
                      /\ ai_out.line = 29
        /\ ai_out.contacted # <<>> => KeySet
        /\ KeySet => Len(ai_out.contacted) >= 1 /\ ai_out.contacted[1] = FREE_MODELS[1]

\* call_ai has returned the fixed text under the placeholder key, with a
\* first model that would have answered.
C29_Witness ==
    /\ Called
    /\ ai_in.key = PlaceholderKey
    /\ Accepts(ai_in.outcomes, 1)
    /\ ai_out.text = ApiKeyNotSet
    /\ ai_out.contacted = <<>>

(***************************************************************************)
(* C30.  What update_progress answers.  The form holds the JSON body of    *)
(* the request; each user owns one note.                                   *)
(***************************************************************************)
NextProgress ==
    \/ Idle /\ \E u \in UserIds, nid \in 1..(MaxUsers + 1), p \in ProgressInputs :
          ServeForm(update_progress(u, nid, p), [method |-> "POST", progress |-> p])
    \/ Respond

SpecProgress == InitScope /\ [][NextProgress]_vars

\* update_progress has answered with its JSON body, {'success': True, ...}.
ProgressAnswered == resp.route = "update_progress" /\ resp.status = 200

\* C30 as stated: the progress in the response is the stored progress of the
\* note after the request.
C30_AsStated == ProgressAnswered => resp.val = Row(notes, resp.arg).progress

\* C30, amended: the response reports the submitted value ('unread' for a
\* body without the key).  That is the stored progress exactly when the value
\* is one of the three; a rejected value is reported back all the same, with
\* the stored progress left as it was.
C30_EchoesSubmitted ==
    /\ [](ProgressAnswered =>
             /\ resp.val = ProgressOf(form.progress)
             /\ resp.arg \in Ids(notes)
             /\ (resp.val \in ProgressValues) <=> (resp.val = Row(notes, resp.arg).progress))
    /\ [][(ProgressAnswered' /\ resp = NoResp /\ resp'.val \notin ProgressValues)
             => notes' = notes]_vars

\* The rejected value done has been reported back for a note that is unread.
C30_Witness ==
    /\ ProgressAnswered
    /\ form.progress = "done" /\ resp.val = "done"
    /\ Row(notes, resp.arg).progress = "unread"

====
